---- MODULE Spec2Model ----
(***************************************************************************)
(* Model of the dictionary section dispatcher and the sense-enrichment     *)
(* fan-out/fan-in of src/ai_svc/dictionary/service.py.                     *)
(*                                                                         *)
(* Python dicts are records, lists are sequences, Optional[int] is a       *)
(* sequence of length 0 (None) or 1.  A message built by an f-string is    *)
(* the sequence of its fragments (the literal pieces and the formatted     *)
(* values), whose concatenation is the Python string.                      *)
(***************************************************************************)
EXTENDS Integers, Sequences, FiniteSets, TLC

VARIABLES
    pc,          \* position of the request thread inside lookup_section
    req,         \* the arguments of lookup_section
    api,         \* what _fetch_from_api returned for this request
    call,        \* the arguments _fetch_enhanced_sense / the standalone fetch received
    fut,         \* the two futures of the worker pool
    notDone,     \* the not_done set concurrent.futures.wait returned
    toCancel,    \* futures of not_done the cancel loop has not visited yet
    got,         \* core_result / related_result read by _get_future_result
    response,    \* the value lookup_section returned
    apiCalls,    \* requests.get calls issued
    modelCalls,  \* agent.run calls issued
    videoCalls,  \* video platform searches issued
    unit,        \* input/output pair of the function a unit specification applies
    runs         \* what each sub-task's agent did (or would do) when its worker ran it

vars == <<pc, req, api, call, fut, notDone, toCancel, got, response,
          apiCalls, modelCalls, videoCalls, unit, runs>>

-----------------------------------------------------------------------------
(* Bounds of the model *)

MaxApiLen == 4        \* longest ground-truth synonym list drawn
MaxAiLen == 4         \* longest model-generated list drawn
MaxEntryIndex == 2    \* largest entry_index a request carries
MaxSenseIndex == 10   \* largest sense_index a request carries
MaxMeanings == 3      \* most meanings of a generated entry
MaxDefs == 5          \* most definitions of a generated meaning
MaxBasicEntries == 2  \* most entries of a body drawn for _fetch_basic
MaxPhonetics == 3     \* most phonetic entries of a drawn entry

-----------------------------------------------------------------------------
(* Python built-ins *)

None == <<>>
Some(n) == <<n>>
IsNone(o) == o = <<>>
Val(o) == o[1]

Get(d, k, default) == IF k \in DOMAIN d THEN d[k] ELSE default

Max(a, b) == IF a >= b THEN a ELSE b
Min(a, b) == IF a <= b THEN a ELSE b

Digit(d) ==
    CASE d = 0 -> "0" [] d = 1 -> "1" [] d = 2 -> "2" [] d = 3 -> "3"
      [] d = 4 -> "4" [] d = 5 -> "5" [] d = 6 -> "6" [] d = 7 -> "7"
      [] d = 8 -> "8" [] d = 9 -> "9"

RECURSIVE Str(_)
Str(n) ==
    IF n < 0 THEN "-" \o Str(-n)
    ELSE IF n < 10 THEN Digit(n)
    ELSE Str(n \div 10) \o Digit(n % 10)

Range(s) == {s[i] : i \in 1..Len(s)}

SeqsUpTo(S, n) == UNION {[1..k -> S] : k \in 0..n}

Take(s, n) == SubSeq(s, 1, Min(n, Len(s)))

\* list(dict.fromkeys(s)): first occurrences, in order
RECURSIVE DictFromKeys(_)
DictFromKeys(s) ==
    IF s = <<>> THEN <<>>
    ELSE LET front == DictFromKeys(SubSeq(s, 1, Len(s) - 1))
             last == s[Len(s)]
         IN IF last \in Range(front) THEN front ELSE Append(front, last)

\* the lists left as short as the merge made them
PadToNever(s, n) == s

\* while len(s) < n: s.append("")
RECURSIVE PadTo(_, _)
PadTo(s, n) == IF Len(s) < n THEN PadTo(Append(s, ""), n) ELSE s

\* sep.join(items), each item a sequence of fragments
RECURSIVE Join(_, _)
Join(items, sep) ==
    IF items = <<>> THEN <<>>
    ELSE IF Len(items) = 1 THEN items[1]
    ELSE items[1] \o <<sep>> \o Join(Tail(items), sep)

Mentions(msg, fragment) == \E i \in 1..Len(msg) : msg[i] = fragment

ContainsSeq(msg, part) ==
    \E i \in 0..(Len(msg) - Len(part)) :
        \A j \in 1..Len(part) : msg[i + j] = part[j]

-----------------------------------------------------------------------------
(* The dictionary API's data: entries -> meanings -> definitions *)

DefObj(d, syn, ant) == [definition |-> d, synonyms |-> syn, antonyms |-> ant]

DefObjEx(d, ex, syn, ant) ==
    [definition |-> d, example |-> ex, synonyms |-> syn, antonyms |-> ant]

PosName(m) ==
    CASE m = 1 -> "noun" [] m = 2 -> "verb" [] m = 3 -> "adjective" [] OTHER -> "adverb"

\* an entry whose m-th meaning has counts[m] definitions, each with its own text
EntryOf(counts) ==
    [meanings |->
        [m \in 1..Len(counts) |->
            [partOfSpeech |-> PosName(m),
             definitions |->
                [k \in 1..counts[m] |->
                    DefObj("def " \o Str(m - 1) \o "." \o Str(k - 1), <<>>, <<>>)],
             synonyms |-> <<>>,
             antonyms |-> <<>>]],
     phonetics |-> <<>>]

\* audio URLs, character by character
AudioUs1 == <<"u", "s", "-", "1", ".", "m", "p", "3">>
AudioUk1 == <<"u", "k", "-", "1", ".", "m", "p", "3">>
AudioRunUs == <<"r", "u", "n", "-", "u", "s", ".", "m", "p", "3">>
AudioRunUK == <<"r", "u", "n", "-", "U", "K", ".", "m", "p", "3">>
AudioRunAu == <<"r", "u", "n", "-", "a", "u", ".", "m", "p", "3">>
AudioEnUsRun == <<"e", "n", "-", "U", "S", "-", "r", "u", "n", ".", "o", "g", "g">>

EntriesBank ==
    << [meanings |->
          << [partOfSpeech |-> "noun",
              definitions |->
                 << DefObjEx("a financial institution", "I went to the bank.",
                             <<"depository", "lender">>, <<"borrower">>),
                    DefObj("the land alongside a river", <<>>, <<>>) >>,
              synonyms |-> <<"shore">>,
              antonyms |-> <<>>],
             [partOfSpeech |-> "",
              definitions |-> << DefObj("to deposit money", <<"deposit", "deposit">>, <<>>) >>,
              synonyms |-> <<>>,
              antonyms |-> <<"withdraw">>] >>,
        phonetics |-> << [text |-> "/bank/"] >>] >>

EntriesRun ==
    << [meanings |->
          << [partOfSpeech |-> "verb",
              definitions |-> << DefObj("to move fast", <<"sprint">>, <<>>),
                                 DefObj("to flow", <<>>, <<>>) >>,
              synonyms |-> <<"dash", "race", "hurry", "bolt">>,
              antonyms |-> <<"walk">>],
             [partOfSpeech |-> "noun",
              definitions |-> << DefObj("an act of running", <<>>, <<>>) >>,
              synonyms |-> <<>>,
              antonyms |-> <<>>] >>,
        phonetics |-> << [text |-> "/run/"],
                         [audio |-> AudioRunUs],
                         [text |-> "/rVn/", audio |-> AudioRunUK] >>],
       EntryOf(<<5>>) >>

EntriesP4 == << EntryOf(<<3, 5, 2>>) >>

\* a meaning without definitions, and an entry without meanings
EntriesSparse == << EntryOf(<<0, 2>>), [phonetics |-> <<>>] >>

\* lists at both levels, at one level only, at neither; a definition and a meaning
\* without the keys
EntrySynonyms ==
    [meanings |->
        << [partOfSpeech |-> "noun",
            definitions |-> << DefObj("d1", <<"a", "b", "c", "d">>, <<"x">>),
                               DefObj("d2", <<>>, <<>>),
                               [definition |-> "d3"] >>,
            synonyms |-> <<"m1", "m2", "m3", "m4">>,
            antonyms |-> <<"n1">>],
           [partOfSpeech |-> "verb",
            definitions |-> << DefObj("d4", <<"e">>, <<>>) >>] >>,
     phonetics |-> <<>>]

ApiBodies == {EntriesBank, EntriesRun, EntriesP4, EntriesSparse}

\* a JSON value that is no object (a string), and an array holding one: response.json()
\* is a non-empty list, entry.get(...) raises AttributeError
NotAnObject == [json |-> "string"]
IsObject(value) == "json" \notin DOMAIN value
EntriesMalformed == << NotAnObject >>
AttributeErrorText == <<"'str' object has no attribute 'get'">>

\* what requests.get(url, timeout=5) can do
HttpOutcomes ==
    {[kind |-> "response", status |-> 200, json |-> TRUE, isList |-> TRUE, body |-> b] :
        b \in ApiBodies \cup {EntriesMalformed}}
    \cup {[kind |-> "response", status |-> 200, json |-> TRUE, isList |-> TRUE, body |-> <<>>],
          [kind |-> "response", status |-> 200, json |-> TRUE, isList |-> FALSE, body |-> <<>>],
          [kind |-> "response", status |-> 200, json |-> FALSE, isList |-> FALSE, body |-> <<>>],
          [kind |-> "response", status |-> 404, json |-> TRUE, isList |-> FALSE, body |-> <<>>],
          [kind |-> "timeout"],
          [kind |-> "raise", text |-> <<"Connection refused">>]}

\* any JSON array taken for a result, the empty one too
FetchFromApiAnyList(http) ==
    IF http.kind = "response"
    THEN IF http.status = 200 /\ ~http.json
         THEN [success |-> FALSE, error |-> <<"Expecting value: line 1 column 1 (char 0)">>]
         ELSE IF http.status = 200 /\ http.isList
         THEN [success |-> TRUE, entries |-> http.body, total_entries |-> Len(http.body)]
         ELSE [success |-> FALSE, error |-> <<"API returned status ", Str(http.status)>>]
    ELSE IF http.kind = "timeout"
    THEN [success |-> FALSE, error |-> <<"API request timeout">>]
    ELSE [success |-> FALSE, error |-> http.text]

_fetch_from_api(http) ==
    IF http.kind = "response"
    THEN IF http.status = 200 /\ ~http.json
         THEN [success |-> FALSE, error |-> <<"Expecting value: line 1 column 1 (char 0)">>]
         ELSE IF http.status = 200 /\ http.isList /\ Len(http.body) > 0
         THEN [success |-> TRUE, entries |-> http.body, total_entries |-> Len(http.body)]
         ELSE [success |-> FALSE, error |-> <<"API returned status ", Str(http.status)>>]
    ELSE IF http.kind = "timeout"
    THEN [success |-> FALSE, error |-> <<"API request timeout">>]
    ELSE [success |-> FALSE, error |-> http.text]

\* the API's reason passed on as it is
ApiFailedBare(api_result) == Get(api_result, "error", <<"Word not found">>)

ApiFailed(api_result) ==
    <<"Dictionary API failed: ">> \o Get(api_result, "error", <<"Word not found">>)

\* a or b, on lists
\* the two lists put together
OrListMixed(a, b) == a \o b

OrList(a, b) == IF a # <<>> THEN a ELSE b

-----------------------------------------------------------------------------
(* _fetch_single_detailed_sense_2d: the walk over meanings and definitions *)

RECURSIVE ScanDefinitions(_, _, _, _)
ScanDefinitions(meaning, k, current_sense_index, sense_index) ==
    LET definitions == Get(meaning, "definitions", <<>>)
    IN IF k > Len(definitions)
       THEN [found |-> FALSE, current_sense_index |-> current_sense_index]
       ELSE IF current_sense_index = sense_index
       THEN LET def_obj == definitions[k]
                example == Get(def_obj, "example", "")
            IN [found |-> TRUE,
                offset |-> k - 1,
                part_of_speech |-> Get(meaning, "partOfSpeech", ""),
                definition |-> Get(def_obj, "definition", ""),
                def_synonyms |-> OrList(Get(def_obj, "synonyms", <<>>),
                                        Get(meaning, "synonyms", <<>>)),
                def_antonyms |-> OrList(Get(def_obj, "antonyms", <<>>),
                                        Get(meaning, "antonyms", <<>>)),
                api_examples |-> IF example # "" THEN <<example>> ELSE <<>>]
       ELSE ScanDefinitions(meaning, k + 1, current_sense_index + 1, sense_index)

\* the count started again at each meaning
RECURSIVE ScanMeaningsPerMeaning(_, _, _, _)
ScanMeaningsPerMeaning(meanings, m, current_sense_index, sense_index) ==
    IF m > Len(meanings)
    THEN [found |-> FALSE, total_senses_in_entry |-> current_sense_index]
    ELSE LET inner == ScanDefinitions(meanings[m], 1, 0, sense_index)
         IN IF inner.found
            THEN [found |-> TRUE,
                  meaning |-> m - 1,
                  offset |-> inner.offset,
                  part_of_speech |-> inner.part_of_speech,
                  definition |-> inner.definition,
                  def_synonyms |-> inner.def_synonyms,
                  def_antonyms |-> inner.def_antonyms,
                  api_examples |-> inner.api_examples]
            ELSE ScanMeaningsPerMeaning(meanings, m + 1, inner.current_sense_index,
                                        sense_index)

RECURSIVE ScanMeanings(_, _, _, _)
ScanMeanings(meanings, m, current_sense_index, sense_index) ==
    IF m > Len(meanings)
    THEN [found |-> FALSE, total_senses_in_entry |-> current_sense_index]
    ELSE LET inner == ScanDefinitions(meanings[m], 1, current_sense_index, sense_index)
         IN IF inner.found
            THEN [found |-> TRUE,
                  meaning |-> m - 1,
                  offset |-> inner.offset,
                  part_of_speech |-> inner.part_of_speech,
                  definition |-> inner.definition,
                  def_synonyms |-> inner.def_synonyms,
                  def_antonyms |-> inner.def_antonyms,
                  api_examples |-> inner.api_examples]
            ELSE ScanMeanings(meanings, m + 1, inner.current_sense_index, sense_index)

ResolveSense2D(entry, sense_index) ==
    ScanMeanings(Get(entry, "meanings", <<>>), 1, 0, sense_index)

InvalidEntryIndex(entry_index, n) ==
    <<"Invalid entry_index ", Str(entry_index), ". Word has ", Str(n),
      " entries (", "0-" \o Str(n - 1), ")">>

InvalidSenseIndex(sense_index, entry_index, total) ==
    <<"Invalid sense_index ", Str(sense_index), ". Entry ", Str(entry_index),
      " has ", Str(total), " senses (", "0-" \o Str(total - 1), ")">>

-----------------------------------------------------------------------------
(* The prompt builders and the agents *)

\* calling a Python function that takes lo..hi positional parameters with `given`
PositionalCallRaises(given, lo, hi) == given < lo \/ given > hi

TypeErrorText(name, lo, hi, given) ==
    <<name \o "() takes from ", Str(lo), " to ", Str(hi),
      " positional arguments but ", Str(given), " were given">>

\* def get_sense_related_words_prompt(word, sense_index, basic_definition,
\*                                    api_synonyms=None, api_antonyms=None)
RelatedPromptRequired == 3
RelatedPromptParams == 5
\* get_sense_related_words_prompt(word, sense_index, basic_definition, api_synonyms,
\*     api_antonyms, synonyms_needed, antonyms_needed, phrases_needed)
RelatedPromptGiven == 8

\* the fields an agent's output_schema keeps of the model's JSON
SenseCoreMetadataFields == {"part_of_speech", "usage_register", "domain", "tone"}
SenseRelatedWordsFields == {"synonyms", "antonyms", "word_specific_phrases"}

\* model_dump() of the validated output: the schema's fields, anything else dropped
ModelDump(raw, fields) == [f \in fields |-> raw[f]]

\* what self.sense_core_agent.run(prompt) can do
CoreRuns ==
    {[kind |-> "content",
      raw |-> [definition |-> "the model's own definition", part_of_speech |-> "verb",
               usage_register |-> <<"formal">>, domain |-> <<>>, tone |-> "neutral"]],
     [kind |-> "content",
      raw |-> [part_of_speech |-> "noun", usage_register |-> <<"informal", "slang">>,
               domain |-> <<"finance">>, tone |-> "positive"]],
     [kind |-> "unparsed"],
     [kind |-> "raise", text |-> <<"Connection error.">>],
     [kind |-> "raise", text |-> <<"Request timed out.">>]}

\* the definition taken from the model's JSON when it gives one
CoreMetadataModelDefinition(basic_definition, part_of_speech, run) ==
    IF run.kind = "raise"
    THEN [success |-> FALSE, error |-> run.text]
    ELSE IF run.kind = "content"
    THEN [success |-> TRUE,
          data |-> [definition |-> Get(run.raw, "definition", basic_definition),
                    part_of_speech |-> IF part_of_speech # "" THEN part_of_speech
                                       ELSE run.raw["part_of_speech"],
                    usage_register |-> run.raw["usage_register"],
                    domain |-> run.raw["domain"],
                    tone |-> run.raw["tone"]]]
    ELSE [success |-> FALSE, error |-> <<"Failed to parse core metadata">>]

_fetch_sense_core_metadata(basic_definition, part_of_speech, run) ==
    IF run.kind = "raise"
    THEN [success |-> FALSE, error |-> run.text]
    ELSE IF run.kind = "content"
    THEN LET dumped == ModelDump(run.raw, SenseCoreMetadataFields)
         IN [success |-> TRUE,
             data |-> [definition |-> basic_definition,
                       part_of_speech |-> IF part_of_speech # "" THEN part_of_speech
                                          ELSE dumped["part_of_speech"],
                       usage_register |-> dumped["usage_register"],
                       domain |-> dumped["domain"],
                       tone |-> dumped["tone"]]]
    ELSE [success |-> FALSE, error |-> <<"Failed to parse core metadata">>]

\* the lines of _fetch_sense_related_words after the prompt is built
RelatedAfterPrompt(run) ==
    IF run.kind = "raise"
    THEN [success |-> FALSE, error |-> run.text]
    ELSE IF run.kind = "content"
    THEN [success |-> TRUE, data |-> ModelDump(run.raw, SenseRelatedWordsFields)]
    ELSE [success |-> FALSE, error |-> <<"Failed to parse related words">>]

\* the exception the prompt call raises inside the try block, caught by its except
RelatedPromptError ==
    TypeErrorText("get_sense_related_words_prompt", RelatedPromptRequired,
                  RelatedPromptParams, RelatedPromptGiven)

_fetch_sense_related_words(run) ==
    IF PositionalCallRaises(RelatedPromptGiven, RelatedPromptRequired, RelatedPromptParams)
    THEN [success |-> FALSE, error |-> RelatedPromptError]
    ELSE RelatedAfterPrompt(run)

\* whether the sub-task reaches agent.run
RelatedCallsAgent ==
    ~PositionalCallRaises(RelatedPromptGiven, RelatedPromptRequired, RelatedPromptParams)

-----------------------------------------------------------------------------
(* _get_future_result and the fan-in of _fetch_enhanced_sense *)

TaskCancelled(task_name) == <<"Task ", task_name, " was cancelled">>
TaskNotReady(task_name) == <<"Task ", task_name, " not ready">>

\* without the except clause for TimeoutError: str(e) of the generic handler
GetFutureResultGeneric(future, task_name) ==
    IF future.state = "CANCELLED"
    THEN [success |-> FALSE, error |-> TaskCancelled(task_name)]
    ELSE IF future.state = "FINISHED"
    THEN future.result
    ELSE [success |-> FALSE, error |-> <<"">>]

_get_future_result(future, task_name) ==
    IF future.state = "CANCELLED"
    THEN [success |-> FALSE, error |-> TaskCancelled(task_name)]
    ELSE IF future.state = "FINISHED"
    THEN future.result
    ELSE [success |-> FALSE, error |-> TaskNotReady(task_name)]

TARGET_SYNONYMS == 3
TARGET_ANTONYMS == 3
TARGET_PHRASES == 3

\* the model's list ahead of the ground truth
MergeUniqueAiFirst(api_list, ai_list, target) ==
    PadTo(Take(DictFromKeys(ai_list \o api_list), target), target)

\* list(dict.fromkeys(api + ai))[:target], then padded with ""
MergeUnique(api_list, ai_list, target) ==
    PadTo(Take(DictFromKeys(api_list \o ai_list), target), target)

MergePhrases(ai_phrases, target) == PadTo(Take(ai_phrases, target), target)

\* merged_synonyms, merged_antonyms, merged_phrases
MergeRelated(api_synonyms, api_antonyms, data) ==
    [synonyms |-> MergeUnique(api_synonyms, data["synonyms"], TARGET_SYNONYMS),
     antonyms |-> MergeUnique(api_antonyms, data["antonyms"], TARGET_ANTONYMS),
     word_specific_phrases |-> MergePhrases(data["word_specific_phrases"], TARGET_PHRASES)]

\* only the first failure reported
FailedItemsFirstOnly(core_result, related_result) ==
    IF ~Get(core_result, "success", FALSE)
    THEN << <<"core: ">> \o Get(core_result, "error", <<"None">>) >>
    ELSE << <<"related: ">> \o Get(related_result, "error", <<"None">>) >>

\* the items in the opposite order
FailedItemsRelatedFirst(core_result, related_result) ==
    (IF ~Get(related_result, "success", FALSE)
     THEN << <<"related: ">> \o Get(related_result, "error", <<"None">>) >> ELSE <<>>)
    \o
    (IF ~Get(core_result, "success", FALSE)
     THEN << <<"core: ">> \o Get(core_result, "error", <<"None">>) >> ELSE <<>>)

FailedItems(core_result, related_result) ==
    (IF ~Get(core_result, "success", FALSE)
     THEN << <<"core: ">> \o Get(core_result, "error", <<"None">>) >> ELSE <<>>)
    \o
    (IF ~Get(related_result, "success", FALSE)
     THEN << <<"related: ">> \o Get(related_result, "error", <<"None">>) >> ELSE <<>>)

\* _fetch_enhanced_sense from the two results it read off its futures
EnhancedSenseResult(sense_index, api_synonyms, api_antonyms, core_result, related_result) ==
    IF ~(Get(core_result, "success", FALSE) /\ Get(related_result, "success", FALSE))
    THEN [success |-> FALSE,
          error |-> <<"Parallel execution failed: ">>
                        \o Join(FailedItems(core_result, related_result), ", ")]
    ELSE [success |-> TRUE,
          sense_index |-> sense_index,
          sense_detail |->
             [definition |-> core_result.data["definition"],
              part_of_speech |-> core_result.data["part_of_speech"],
              usage_register |-> core_result.data["usage_register"],
              domain |-> core_result.data["domain"],
              tone |-> core_result.data["tone"],
              synonyms |-> MergeRelated(api_synonyms, api_antonyms,
                                        related_result.data).synonyms,
              antonyms |-> MergeRelated(api_synonyms, api_antonyms,
                                        related_result.data).antonyms,
              word_specific_phrases |->
                  MergeRelated(api_synonyms, api_antonyms,
                               related_result.data).word_specific_phrases]]

-----------------------------------------------------------------------------
(* _fetch_basic and _extract_pronunciation_data *)

\* str.lower() on a character of an audio URL
LowerChar(ch) ==
    CASE ch = "U" -> "u" [] ch = "K" -> "k" [] ch = "S" -> "s"
      [] ch = "M" -> "m" [] ch = "P" -> "p" [] OTHER -> ch

Lower(audio) == [i \in 1..Len(audio) |-> LowerChar(audio[i])]

\* marker in audio.lower()
AudioHas(audio, marker) == ContainsSeq(Lower(audio), marker)

\* the test each of the three scans applies to a non-empty audio URL
AudioWanted(audio, tier) ==
    CASE tier = "uk" -> \/ AudioHas(audio, <<"-", "u", "k", ".", "m", "p", "3">>)
                        \/ AudioHas(audio, <<"-", "u", "k", "-">>)
      [] tier = "us" -> \/ AudioHas(audio, <<"-", "u", "s", ".", "m", "p", "3">>)
                        \/ AudioHas(audio, <<"-", "u", "s", "-">>)
      [] OTHER -> TRUE

\* the audio of the first phonetic entry from position i on that passes the tier's test
RECURSIVE FirstAudio(_, _, _)
FirstAudio(phonetics, i, tier) ==
    IF i > Len(phonetics) THEN <<>>
    ELSE LET audio == Get(phonetics[i], "audio", <<>>)
         IN IF audio # <<>> /\ AudioWanted(audio, tier) THEN audio
            ELSE FirstAudio(phonetics, i + 1, tier)

RECURSIVE FirstText(_, _)
FirstText(phonetics, i) ==
    IF i > Len(phonetics) THEN ""
    ELSE IF Get(phonetics[i], "text", "") # "" THEN phonetics[i].text
    ELSE FirstText(phonetics, i + 1)

_extract_pronunciation_data(entry) ==
    LET phonetics == Get(entry, "phonetics", <<>>)
        uk == FirstAudio(phonetics, 1, "uk")
        us == FirstAudio(phonetics, 1, "us")
        any == FirstAudio(phonetics, 1, "any")
        text == FirstText(phonetics, 1)
    IN [pronunciation |-> IF uk # <<>> THEN uk ELSE IF us # <<>> THEN us ELSE any,
        ipa |-> IF text # "" THEN text ELSE Get(entry, "phonetic", "")]

SenseSummary(def_obj, meaning) ==
    LET example == Get(def_obj, "example", "")
        def_synonyms == OrList(Get(def_obj, "synonyms", <<>>), Get(meaning, "synonyms", <<>>))
        def_antonyms == OrList(Get(def_obj, "antonyms", <<>>), Get(meaning, "antonyms", <<>>))
    IN [definition |-> Get(def_obj, "definition", ""),
        example |-> IF example # "" THEN Some(example) ELSE None,
        synonyms |-> Take(def_synonyms, 3),
        antonyms |-> Take(def_antonyms, 3)]

MeaningSummary(meaning) ==
    LET definitions == Get(meaning, "definitions", <<>>)
    IN [part_of_speech |-> Get(meaning, "partOfSpeech", "unknown"),
        definition_count |-> Len(definitions),
        senses |-> [k \in 1..Len(definitions) |-> SenseSummary(definitions[k], meaning)]]

\* entry_senses += def_count, over the meanings from position m on
RECURSIVE EntrySenses(_, _)
EntrySenses(meanings, m) ==
    IF m > Len(meanings) THEN 0
    ELSE Len(Get(meanings[m], "definitions", <<>>)) + EntrySenses(meanings, m + 1)

EntryInfo(entry, entry_idx) ==
    LET meanings == Get(entry, "meanings", <<>>)
        pronunciation_data == _extract_pronunciation_data(entry)
    IN [entry_index |-> entry_idx,
        pronunciation |-> pronunciation_data.pronunciation,
        ipa |-> pronunciation_data.ipa,
        meanings_summary |-> [m \in 1..Len(meanings) |-> MeaningSummary(meanings[m])],
        total_senses |-> EntrySenses(meanings, 1)]

\* total_senses = entry_senses: the count of the last entry alone
TotalSensesLastEntry(entries, e) ==
    IF e > Len(entries) THEN 0
    ELSE EntrySenses(Get(entries[Len(entries)], "meanings", <<>>), 1)

\* total_senses += entry_senses, over the entries from position e on
RECURSIVE TotalSenses(_, _)
TotalSenses(entries, e) ==
    IF e > Len(entries) THEN 0
    ELSE EntrySenses(Get(entries[e], "meanings", <<>>), 1) + TotalSenses(entries, e + 1)

_fetch_basic(word, api_result) ==
    IF Get(api_result, "success", FALSE)
    THEN LET entries_data == api_result.entries
         IN IF \E e \in 1..Len(entries_data) : ~IsObject(entries_data[e])
            THEN [raised |-> AttributeErrorText]
            ELSE [headword |-> word,
                  total_entries |-> Len(entries_data),
                  entries |-> [e \in 1..Len(entries_data) |->
                                  EntryInfo(entries_data[e], e - 1)],
                  total_senses |-> TotalSenses(entries_data, 1),
                  data_source |-> "api",
                  execution_time |-> "elapsed",
                  success |-> TRUE]
    ELSE [headword |-> word, error |-> ApiFailed(api_result), success |-> FALSE]

-----------------------------------------------------------------------------
(* The standalone sense sections: examples and usage_notes *)

IndexErrorText == <<"list index out of range">>

\* list[i] in Python: negative positions count from the end, others raise IndexError
PyIndex(list, i) ==
    IF 0 <= i /\ i < Len(list) THEN [ok |-> TRUE, item |-> list[i + 1]]
    ELSE IF i < 0 /\ -i <= Len(list) THEN [ok |-> TRUE, item |-> list[Len(list) + i + 1]]
    ELSE [ok |-> FALSE]

\* the loop of _fetch_sense_examples_standalone over the meanings from position m on
RECURSIVE FlatScanExamples(_, _, _, _)
FlatScanExamples(meanings, m, flat_index, sense_index) ==
    IF m > Len(meanings) THEN [kind |-> "not_found"]
    ELSE LET definitions == Get(meanings[m], "definitions", <<>>)
         IN IF flat_index + Len(definitions) > sense_index
            THEN LET definition == PyIndex(definitions, sense_index - flat_index)
                 IN IF definition.ok
                    THEN [kind |-> "found", meaning |-> m - 1,
                          definition_index |-> sense_index - flat_index,
                          definition |-> definition.item]
                    ELSE [kind |-> "raise", text |-> IndexErrorText]
            ELSE FlatScanExamples(meanings, m + 1, flat_index + Len(definitions), sense_index)

\* a meaning without definitions counted as one sense
RECURSIVE FlatScanCountingEmpty(_, _, _, _)
FlatScanCountingEmpty(meanings, m, flat_index, sense_index) ==
    IF m > Len(meanings) THEN [kind |-> "not_found"]
    ELSE LET definitions == Get(meanings[m], "definitions", <<>>)
         IN IF flat_index + Max(1, Len(definitions)) > sense_index
            THEN LET definition == PyIndex(definitions, sense_index - flat_index)
                 IN IF definition.ok
                    THEN [kind |-> "found", meaning |-> m - 1,
                          definition_index |-> sense_index - flat_index,
                          definition |-> definition.item]
                    ELSE [kind |-> "raise", text |-> IndexErrorText]
            ELSE FlatScanCountingEmpty(meanings, m + 1,
                                       flat_index + Max(1, Len(definitions)), sense_index)

\* the loop of _fetch_sense_usage_notes_standalone over the meanings from position m on
RECURSIVE FlatScanUsageNotes(_, _, _, _)
FlatScanUsageNotes(meanings, m, flat_index, sense_index) ==
    IF m > Len(meanings) THEN [kind |-> "not_found"]
    ELSE LET definitions == Get(meanings[m], "definitions", <<>>)
         IN IF flat_index + Len(definitions) > sense_index
            THEN LET definition == PyIndex(definitions, sense_index - flat_index)
                 IN IF definition.ok
                    THEN [kind |-> "found", meaning |-> m - 1,
                          definition_index |-> sense_index - flat_index,
                          definition |-> definition.item]
                    ELSE [kind |-> "raise", text |-> IndexErrorText]
            ELSE FlatScanUsageNotes(meanings, m + 1, flat_index + Len(definitions),
                                    sense_index)

\* the model asked about the bare word when the API has nothing
StandaloneResolveFallback(section, api_data, entry_index, sense_index) ==
    [kind |-> "found", meaning |-> 0, definition_index |-> 0,
     definition |-> [definition |-> ""]]

\* the part of a standalone fetch between the API call and the model call
StandaloneResolve(section, api_data, entry_index, sense_index) ==
    IF ~Get(api_data, "success", FALSE)
    THEN [kind |-> "error", error |-> ApiFailed(api_data)]
    ELSE LET entries == Get(api_data, "entries", <<>>)
         IN IF entry_index >= Len(entries)
            THEN [kind |-> "error",
                  error |-> <<"Entry index ", Str(entry_index),
                              " out of range (total entries: ", Str(Len(entries)), ")">>]
            ELSE LET entry == PyIndex(entries, entry_index)
                 IN IF ~entry.ok
                    THEN [kind |-> "error", error |-> IndexErrorText]
                    ELSE IF ~IsObject(entry.item)
                    THEN [kind |-> "error", error |-> AttributeErrorText]
                    ELSE LET meanings == Get(entry.item, "meanings", <<>>)
                             hit == IF section = "examples"
                                    THEN FlatScanExamples(meanings, 1, 0, sense_index)
                                    ELSE FlatScanUsageNotes(meanings, 1, 0, sense_index)
                         IN IF hit.kind = "found" THEN hit
                            ELSE IF hit.kind = "raise"
                            THEN [kind |-> "error", error |-> hit.text]
                            ELSE [kind |-> "error",
                                  error |-> <<"Sense index ", Str(sense_index),
                                              " not found in entry ", Str(entry_index)>>]

\* def get_sense_usage_examples_prompt(word, sense_index, basic_definition, api_examples=None)
ExamplesPromptRequired == 3
ExamplesPromptParams == 4
\* get_sense_usage_examples_prompt(word, sense_index, basic_definition, api_examples,
\*                                 examples_needed, collocations_needed)
ExamplesPromptGiven == 6

ExamplesCallsAgent ==
    ~PositionalCallRaises(ExamplesPromptGiven, ExamplesPromptRequired, ExamplesPromptParams)

SenseUsageExamplesFields == {"examples", "collocations"}
SenseUsageNotesFields == {"usage_notes"}

UsageExamplesRuns ==
    {[kind |-> "content",
      raw |-> [examples |-> <<"She runs daily.">>, collocations |-> <<"run fast">>]],
     [kind |-> "unparsed"],
     [kind |-> "raise", text |-> <<"Connection error.">>]}

UsageNotesRuns ==
    {[kind |-> "content", raw |-> [usage_notes |-> "Used in everyday speech."]],
     [kind |-> "unparsed"],
     [kind |-> "raise", text |-> <<"Connection error.">>]}

_fetch_sense_usage_examples(run) ==
    IF PositionalCallRaises(ExamplesPromptGiven, ExamplesPromptRequired, ExamplesPromptParams)
    THEN [success |-> FALSE,
          error |-> TypeErrorText("get_sense_usage_examples_prompt", ExamplesPromptRequired,
                                  ExamplesPromptParams, ExamplesPromptGiven)]
    ELSE IF run.kind = "raise"
    THEN [success |-> FALSE, error |-> run.text]
    ELSE IF run.kind = "content"
    THEN [success |-> TRUE, data |-> ModelDump(run.raw, SenseUsageExamplesFields)]
    ELSE [success |-> FALSE, error |-> <<"Failed to parse usage examples">>]

_fetch_sense_usage_notes(run) ==
    IF run.kind = "raise"
    THEN [success |-> FALSE, error |-> run.text]
    ELSE IF run.kind = "content"
    THEN [success |-> TRUE, data |-> ModelDump(run.raw, SenseUsageNotesFields)]
    ELSE [success |-> FALSE, error |-> <<"Failed to parse usage notes">>]

TARGET_EXAMPLES == 2
TARGET_COLLOCATIONS == 3

\* lookup_section's answer for examples, from the resolved definition and the model run
ExamplesResponse(word, entry_index, sense_index, definition, run) ==
    LET api_example == Get(definition, "example", "")
        api_examples == IF api_example # "" THEN <<api_example>> ELSE <<>>
        result == _fetch_sense_usage_examples(run)
    IN IF result.success
       THEN [headword |-> word,
             entry_index |-> entry_index,
             sense_index |-> sense_index,
             examples |-> MergeUnique(api_examples, result.data["examples"], TARGET_EXAMPLES),
             collocations |-> MergePhrases(result.data["collocations"], TARGET_COLLOCATIONS),
             execution_time |-> "elapsed",
             success |-> TRUE]
       ELSE result

\* lookup_section's answer for usage_notes
UsageNotesResponse(word, entry_index, sense_index, run) ==
    LET result == _fetch_sense_usage_notes(run)
    IN IF result.success
       THEN [headword |-> word,
             entry_index |-> entry_index,
             sense_index |-> sense_index,
             usage_notes |-> result.data["usage_notes"],
             execution_time |-> "elapsed",
             success |-> TRUE]
       ELSE result

-----------------------------------------------------------------------------
(* The entry-level sections *)

AiSections == {"etymology", "word_family", "usage_context", "cultural_notes", "frequency"}
entry_level_sections == AiSections \cup {"bilibili_videos"}

SectionText(section) ==
    CASE section = "etymology" -> "etymology"
      [] section = "word_family" -> "word family"
      [] section = "usage_context" -> "usage context"
      [] section = "cultural_notes" -> "cultural notes"
      [] OTHER -> "frequency"

\* what the section's agent returns as response.content when it validates
SectionContent(section) ==
    CASE section = "etymology" -> [etymology |-> "from Old English", root_analysis |-> ""]
      [] section = "word_family" -> [word_family |-> <<"runner">>]
      [] section = "usage_context" ->
            [modern_relevance |-> "", common_confusions |-> <<>>, regional_variations |-> <<>>]
      [] section = "cultural_notes" -> [notes |-> ""]
      [] OTHER -> [frequency |-> "common"]

SectionRuns ==
    {[kind |-> "content"], [kind |-> "unparsed"],
     [kind |-> "raise", text |-> <<"Connection error.">>]}

\* _fetch_etymology, _fetch_word_family, _fetch_usage_context, _fetch_cultural_notes,
\* _fetch_frequency
SectionFetch(section, run) ==
    IF run.kind = "raise"
    THEN [success |-> FALSE, error |-> run.text]
    ELSE IF run.kind = "content"
    THEN [success |-> TRUE,
          data |-> IF section = "frequency" THEN SectionContent(section).frequency
                   ELSE SectionContent(section)]
    ELSE [success |-> FALSE,
          error |-> <<"Failed to parse ", SectionText(section), " information">>]

\* the response dictionary of _fetch_entry_level_section, keyed by the section name
SectionResponse(word, section, target_entry_index, result) ==
    IF ~result.success THEN result
    ELSE (section :> result.data)
         @@ [headword |-> word,
             entry_index |-> target_entry_index,
             execution_time |-> "elapsed",
             success |-> TRUE]

\* the message without the range
EntryIndexOutOfRangeCountOnly(target_entry_index, n) ==
    <<"entry_index ", Str(target_entry_index), " out of range. Word has ", Str(n),
      " entries">>

EntryIndexOutOfRange(target_entry_index, n) ==
    <<"entry_index ", Str(target_entry_index), " out of range. Word has ", Str(n),
      " entries (", "0-" \o Str(n - 1), ")">>

\* _fetch_common_phrases: the agent's phrases, or the bare word
CommonPhrasesRuns(word) ==
    {[kind |-> "content", phrases |-> <<word>>],
     [kind |-> "content", phrases |-> <<word \o " into", word \o " out of">>],
     [kind |-> "content", phrases |-> <<word, word \o " on", word \o " holiday">>],
     [kind |-> "unparsed"],
     [kind |-> "raise", text |-> <<"Connection error.">>]}

_fetch_common_phrases(word, run) ==
    IF run.kind = "content" THEN run.phrases ELSE <<word>>

\* BILIBILI_PAGE_SIZE is passed to the search only; the cap of the subtitle probe:
MAX_VIDEOS_TO_CHECK_FOR_SUBTITLES == 50

\* A duration string is modelled by its split(':') parts; a part is <<n>> when int()
\* reads it as n and <<>> when int() raises ValueError.
Mins(m, sec) == << <<m>>, <<sec>> >>
Hours(h, m, sec) == << <<h>>, <<m>>, <<sec>> >>

IntOk(parts) == \A i \in 1..Len(parts) : parts[i] # <<>>

\* _parse_duration: MM:SS or HH:MM:SS in seconds, anything else 0
_parse_duration(parts) ==
    IF ~IntOk(parts) THEN 0
    ELSE IF Len(parts) = 2 THEN parts[1][1] * 60 + parts[2][1]
    ELSE IF Len(parts) = 3 THEN parts[1][1] * 3600 + parts[2][1] * 60 + parts[3][1]
    ELSE 0

\* the conversion written out again where the record is built: two parts or one
RecordDuration(parts) ==
    IF Len(parts) > 1
    THEN IF Len(parts) = 2
         THEN IF IntOk(parts) THEN parts[1][1] * 60 + parts[2][1] ELSE 0
         ELSE 0
    ELSE IF IntOk(parts) /\ Len(parts) = 1 THEN parts[1][1] ELSE 0

\* the tag words found in the lower-cased tag and title of a video
EDUCATIONAL_TAGS == {"english", "learning"}
AVOID_TAGS == {"dance", "music"}

_is_educational_video(video) ==
    /\ video.tags \cap EDUCATIONAL_TAGS # {}
    /\ video.tags \cap AVOID_TAGS = {}

_has_avoid_tags(video) == video.tags \cap AVOID_TAGS # {}

\* _calculate_quality_score in millionths; exact when views divides 100000
_calculate_quality_score(video) ==
    LET views == video.play
        likes == video.like
        favorites == video.favorites
        comments == video.review
    IN IF views = 0 THEN 0
       ELSE (100000 * (3 * likes + 5 * favorites + 2 * (likes + favorites + comments)))
                \div views
            + Min(views, 100000)

\* the filters applied to one search result
PassesFilters(video, used_knowledge_zone) ==
    LET duration == _parse_duration(video.duration)
    IN /\ 45 <= duration /\ duration <= 1800
       /\ IF used_knowledge_zone THEN _is_educational_video(video)
          ELSE ~_has_avoid_tags(video)
       /\ ~(video.play < 100)
       /\ ~(video.favorites < 10)
       /\ ~(_calculate_quality_score(video) < 10000)

\* filtered_videos, in the order of the search result, from position i on
RECURSIVE FilteredVideos(_, _, _)
FilteredVideos(videos, i, used_knowledge_zone) ==
    IF i > Len(videos) THEN <<>>
    ELSE (IF PassesFilters(videos[i], used_knowledge_zone)
          THEN << [video |-> videos[i],
                   quality_score |-> _calculate_quality_score(videos[i])] >>
          ELSE <<>>)
         \o FilteredVideos(videos, i + 1, used_knowledge_zone)

\* item put behind every item of sorted whose score is not lower
RECURSIVE InsertByScore(_, _)
InsertByScore(sorted, item) ==
    IF sorted = <<>> THEN <<item>>
    ELSE IF Head(sorted).quality_score >= item.quality_score
    THEN <<Head(sorted)>> \o InsertByScore(Tail(sorted), item)
    ELSE <<item>> \o sorted

\* filtered_videos.sort(key=quality_score, reverse=True): stable, highest first
RECURSIVE SortByScore(_, _)
SortByScore(items, n) ==
    IF n = 0 THEN <<>> ELSE InsertByScore(SortByScore(items, n - 1), items[n])

\* _get_bilibili_subtitles: the first three lines of the track matching the phrase;
\* a video without a usable track has an empty body
RECURSIVE SubtitleOccurrences(_, _, _)
SubtitleOccurrences(body, i, found) ==
    IF i > Len(body) \/ found >= 3 THEN <<>>
    ELSE IF body[i].match
    THEN << [start |-> body[i].from] >> \o SubtitleOccurrences(body, i + 1, found + 1)
    ELSE SubtitleOccurrences(body, i + 1, found)

_get_bilibili_subtitles(video) == SubtitleOccurrences(video.subtitle_body, 1, 0)

\* the loop over filtered_videos[:50]: both branches of its body end with break, so
\* only the first item is ever looked at
ProbeCandidates(items, i) ==
    IF i > Len(items) THEN [best_video |-> None]
    ELSE LET subtitle_occurrences == _get_bilibili_subtitles(items[i].video)
         IN IF subtitle_occurrences # <<>>
            THEN [best_video |-> Some(items[i].video),
                  best_subtitle_occurrences |-> subtitle_occurrences]
            ELSE [best_video |-> Some(items[i].video), best_subtitle_occurrences |-> <<>>]

MinStart(occurrences) ==
    CHOOSE t \in {occurrences[i].start : i \in 1..Len(occurrences)} :
        \A i \in 1..Len(occurrences) : t <= occurrences[i].start

\* BilibiliVideoInfo(...).model_dump() of the selected video
VideoInfo(best_video, occurrences, phrase) ==
    LET start_time == IF occurrences # <<>> THEN MinStart(occurrences) ELSE 0
    IN [bvid |-> best_video.bvid,
        view |-> best_video.play,
        favorite |-> best_video.favorites,
        like |-> best_video.like,
        duration |-> RecordDuration(best_video.duration),
        start_time |-> start_time,
        matched_phrase |-> phrase,
        video_url |-> <<"https://www.bilibili.com/video/", best_video.bvid>>
                      \o (IF start_time > 0 THEN <<"?t=", Str(start_time)>> ELSE <<>>)]

\* the body of the loop over the phrases: what one phrase adds to all_videos.
\* found is what the two searches return: knowledge, and general when knowledge
\* is empty, or an exception. A description that is null makes [:200] raise while
\* the record is built.
PhraseVideos(phrase, found) ==
    IF found.kind = "raise" THEN <<>>
    ELSE LET used_knowledge_zone == found.knowledge # <<>>
             videos == IF used_knowledge_zone THEN found.knowledge ELSE found.general
             filtered == FilteredVideos(videos, 1, used_knowledge_zone)
             sorted == SortByScore(filtered, Len(filtered))
             best == ProbeCandidates(Take(sorted, MAX_VIDEOS_TO_CHECK_FOR_SUBTITLES), 1)
         IN IF IsNone(best.best_video) THEN <<>>
            ELSE IF IsNone(Val(best.best_video).description) THEN <<>>
            ELSE << VideoInfo(Val(best.best_video), best.best_subtitle_occurrences, phrase) >>

\* the loop left at the first phrase that adds nothing
RECURSIVE AllVideosStopAtFailure(_, _, _)
AllVideosStopAtFailure(phrases, i, searches) ==
    IF i > Len(phrases) THEN <<>>
    ELSE IF PhraseVideos(phrases[i], searches[i]) = <<>> THEN <<>>
    ELSE PhraseVideos(phrases[i], searches[i])
         \o AllVideosStopAtFailure(phrases, i + 1, searches)

\* all_videos after the phrases from position i on
RECURSIVE AllVideos(_, _, _)
AllVideos(phrases, i, searches) ==
    IF i > Len(phrases) THEN <<>>
    ELSE PhraseVideos(phrases[i], searches[i]) \o AllVideos(phrases, i + 1, searches)

_fetch_bilibili_videos(phrases, searches) ==
    [success |-> TRUE, data |-> AllVideos(phrases, 1, searches)]

\* search results: the fields of a video the pipeline reads
Video(bvid, duration, play, favorites, like, tags, subtitle_body) ==
    [bvid |-> bvid, duration |-> duration, play |-> play, favorites |-> favorites,
     like |-> like, review |-> 0, tags |-> tags, description |-> Some("a lesson"),
     subtitle_body |-> subtitle_body]

NoTrack == <<>>
TrackWithMatches ==
    << [from |-> 3, match |-> FALSE], [from |-> 7, match |-> TRUE],
       [from |-> 12, match |-> TRUE] >>

VTop == Video("BV1top", Mins(5, 0), 200, 40, 20, {"english"}, NoTrack)
VSub == Video("BV1sub", Mins(30, 0), 200, 20, 10, {"learning"}, TrackWithMatches)
VHour == Video("BV1hour", Hours(0, 10, 0), 100, 10, 0, {"english"}, NoTrack)
VShort == Video("BV1short", Mins(0, 44), 200, 40, 40, {"english"}, TrackWithMatches)
VPlain == Video("BV1plain", Mins(0, 45), 100, 10, 0, {}, NoTrack)
VMusic == Video("BV1music", Mins(5, 0), 200, 40, 40, {"english", "music"}, NoTrack)
VUnseen == Video("BV1unseen", Mins(5, 0), 50, 5, 5, {"english"}, NoTrack)
VDull == Video("BV1dull", Mins(5, 0), 5000, 10, 0, {"english"}, NoTrack)
VNoTime == Video("BV1notime", << <<5>>, <<>> >>, 200, 40, 40, {"english"}, NoTrack)
\* "description": null in the search result
VBroken == [Video("BV1broken", Mins(5, 0), 200, 50, 50, {"english"}, NoTrack)
               EXCEPT !.description = None]

VideoPool == {VTop, VSub, VHour, VShort, VPlain, VMusic, VUnseen, VDull, VNoTime, VBroken}

\* what the searches for one phrase can do: the knowledge-zone result, the general
\* result asked for when the first is empty, or an exception
Searches(lists) ==
    {[kind |-> "result", knowledge |-> k, general |-> <<>>] : k \in lists \ {<<>>}}
    \cup {[kind |-> "result", knowledge |-> <<>>, general |-> g] : g \in lists}
    \cup {[kind |-> "raise", text |-> <<"Network error">>]}

SectionSearches == Searches({<<>>, <<VSub>>})

-----------------------------------------------------------------------------
(* lookup_section: the request and its validation *)

\* one more name let through
valid_sections_pronunciation ==
    <<"etymology", "word_family", "usage_context", "cultural_notes", "frequency",
      "detailed_sense", "basic", "examples", "usage_notes", "bilibili_videos",
      "pronunciation">>

valid_sections ==
    <<"etymology", "word_family", "usage_context", "cultural_notes", "frequency",
      "detailed_sense", "basic", "examples", "usage_notes", "bilibili_videos">>

SenseSections == {"detailed_sense", "examples", "usage_notes"}

Words == {"bank"}
Sections == Range(valid_sections) \cup {"pronunciation", ""}
EntryIndexes == {None} \cup {Some(i) : i \in -1..MaxEntryIndex}
SenseIndexes == {None} \cup {Some(i) : i \in -1..MaxSenseIndex}

InvalidSection(section) ==
    <<"Invalid section '", section, "'. Valid sections: ">>
    \o Join([i \in 1..Len(valid_sections) |-> <<valid_sections[i]>>], ", ")

\* the message naming only the index the section is about
RequiresSenseIndex(section) ==
    <<section \o " requires '", "sense_index", "'">>

RequiresBoth(section) ==
    <<IF section = "detailed_sense" THEN "detailed_sense requires both '"
      ELSE section \o " section requires both '",
      "entry_index", "' and '", "sense_index", "'">>

\* the checks made before the first call to the dictionary API: None when they pass
Validate(section, entry_index, sense_index) ==
    IF section \notin Range(valid_sections)
    THEN Some([error |-> InvalidSection(section), success |-> FALSE])
    ELSE IF section \in SenseSections /\ (IsNone(entry_index) \/ IsNone(sense_index))
    THEN Some([error |-> RequiresBoth(section), success |-> FALSE])
    ELSE IF section \in entry_level_sections /\ ~IsNone(entry_index) /\ Val(entry_index) < 0
    THEN Some([error |-> <<"entry_index must be >= 0, got ", Str(Val(entry_index))>>,
               success |-> FALSE])
    ELSE None

Tasks == {"core", "related"}

NoUnit == [fn |-> "none"]

Init ==
    /\ pc = "idle"
    /\ req = [word |-> "", section |-> "", entry_index |-> None, sense_index |-> None]
    /\ api = [fetched |-> FALSE]
    /\ call = [target |-> "none"]
    /\ fut = [t \in Tasks |-> [state |-> "none"]]
    /\ notDone = {}
    /\ toCancel = {}
    /\ got = [t \in Tasks |-> None]
    /\ response = None
    /\ apiCalls = 0
    /\ modelCalls = 0
    /\ videoCalls = 0
    /\ unit = NoUnit
    /\ runs = [t \in Tasks |-> "none"]

Return(value) ==
    /\ response' = Some(value)
    /\ pc' = "done"

LookupSection(word, section, entry_index, sense_index) ==
    /\ pc = "idle"
    /\ req' = [word |-> word, section |-> section,
               entry_index |-> entry_index, sense_index |-> sense_index]
    /\ LET rejected == Validate(section, entry_index, sense_index)
       IN IF IsNone(rejected)
          THEN pc' = "api" /\ response' = response
          ELSE Return(Val(rejected))
    /\ UNCHANGED <<api, call, fut, notDone, toCancel, got, apiCalls, modelCalls,
                   videoCalls, unit, runs>>

-----------------------------------------------------------------------------
(* The handlers up to their first model call *)

FetchFromApi(http) ==
    /\ pc = "api"
    /\ api' = _fetch_from_api(http)
    /\ apiCalls' = apiCalls + 1

\* nothing caught: what a handler raises leaves lookup_section
LookupSectionUncaught(word, outcome) == outcome

\* the try/except Exception around the body of lookup_section
LookupSectionExcept(word, outcome) ==
    IF "raised" \in DOMAIN outcome
    THEN [headword |-> word, error |-> outcome.raised, success |-> FALSE]
    ELSE outcome

BasicSection(http) ==
    /\ req.section = "basic"
    /\ FetchFromApi(http)
    /\ Return(LookupSectionExcept(req.word, _fetch_basic(req.word, api')))
    /\ UNCHANGED <<req, call, fut, notDone, toCancel, got, modelCalls, videoCalls, unit, runs>>

\* _fetch_single_detailed_sense_2d up to the call of _fetch_enhanced_sense
DetailedSenseResolve(api_result, entry_index, sense_index) ==
    IF ~Get(api_result, "success", FALSE)
    THEN [found |-> FALSE, error |-> ApiFailed(api_result)]
    ELSE LET entries == api_result.entries
         IN IF entry_index < 0 \/ entry_index >= Len(entries)
            THEN [found |-> FALSE, error |-> InvalidEntryIndex(entry_index, Len(entries))]
            ELSE IF ~IsObject(entries[entry_index + 1])
            THEN [found |-> FALSE, error |-> AttributeErrorText]
            ELSE LET hit == ResolveSense2D(entries[entry_index + 1], sense_index)
                 IN IF hit.found THEN hit
                    ELSE [found |-> FALSE,
                          error |-> InvalidSenseIndex(sense_index, entry_index,
                                                      hit.total_senses_in_entry)]

DetailedSenseSection(http) ==
    /\ req.section = "detailed_sense"
    /\ FetchFromApi(http)
    /\ LET hit == DetailedSenseResolve(api', Val(req.entry_index), Val(req.sense_index))
       IN IF hit.found
          THEN /\ call' = [target |-> "_fetch_enhanced_sense",
                           sense_index |-> Val(req.sense_index),
                           part_of_speech |-> hit.part_of_speech,
                           basic_definition |-> hit.definition,
                           api_synonyms |-> hit.def_synonyms,
                           api_antonyms |-> hit.def_antonyms,
                           meaning |-> hit.meaning,
                           offset |-> hit.offset]
               /\ pc' = "submit_core"
               /\ response' = response
          ELSE /\ Return([error |-> hit.error, success |-> FALSE])
               /\ call' = call
    /\ UNCHANGED <<req, fut, notDone, toCancel, got, modelCalls, videoCalls, unit, runs>>

StandaloneSection(http) ==
    /\ req.section \in {"examples", "usage_notes"}
    /\ FetchFromApi(http)
    /\ LET hit == StandaloneResolve(req.section, api', Val(req.entry_index),
                                    Val(req.sense_index))
       IN IF hit.kind = "found"
          THEN /\ call' = [target |-> req.section,
                           definition |-> hit.definition,
                           meaning |-> hit.meaning,
                           offset |-> hit.definition_index]
               /\ pc' = "standalone_model"
               /\ response' = response
          ELSE /\ Return([success |-> FALSE, error |-> hit.error])
               /\ call' = call
    /\ UNCHANGED <<req, fut, notDone, toCancel, got, modelCalls, videoCalls, unit, runs>>

\* _fetch_entry_level_section up to the call of the section's method
EntryLevelSection(http) ==
    /\ req.section \in entry_level_sections
    /\ FetchFromApi(http)
    /\ LET target_entry_index == IF IsNone(req.entry_index) THEN 0 ELSE Val(req.entry_index)
       IN IF Get(api', "success", FALSE)
          THEN IF target_entry_index >= Len(api'.entries)
               THEN /\ Return([error |-> EntryIndexOutOfRange(target_entry_index,
                                                              Len(api'.entries)),
                               success |-> FALSE])
                    /\ call' = call
               ELSE /\ call' = [target |-> req.section,
                                target_entry_index |-> target_entry_index,
                                context_entry |-> Some(api'.entries[target_entry_index + 1])]
                    /\ pc' = "section_model"
                    /\ response' = response
          ELSE /\ call' = [target |-> req.section,
                           target_entry_index |-> 0,
                           context_entry |-> None]
               /\ pc' = "section_model"
               /\ response' = response
    /\ UNCHANGED <<req, fut, notDone, toCancel, got, modelCalls, videoCalls, unit, runs>>

-----------------------------------------------------------------------------
(* _fetch_enhanced_sense: the worker pool of two, the bounded wait, the fan-in *)

\* what self.sense_related_agent.run(prompt) can do
RelatedRuns ==
    {[kind |-> "content",
      raw |-> [synonyms |-> <<"lender", "treasury">>, antonyms |-> <<"debtor", "spender">>,
               word_specific_phrases |-> <<"break the bank">>]],
     [kind |-> "unparsed"],
     [kind |-> "raise", text |-> <<"Connection error.">>]}

SubmitCore ==
    /\ pc = "submit_core"
    /\ fut' = [fut EXCEPT !["core"] = [state |-> "PENDING"]]
    /\ pc' = "submit_related"
    /\ UNCHANGED <<req, api, call, notDone, toCancel, got, response, apiCalls,
                   modelCalls, videoCalls, unit, runs>>

SubmitRelated ==
    /\ pc = "submit_related"
    /\ fut' = [fut EXCEPT !["related"] = [state |-> "PENDING"]]
    /\ pc' = "wait"
    /\ UNCHANGED <<req, api, call, notDone, toCancel, got, response, apiCalls,
                   modelCalls, videoCalls, unit, runs>>

\* a worker thread takes the work item off the queue: set_running_or_notify_cancel
WorkerStart(t) ==
    /\ fut[t].state = "PENDING"
    /\ fut' = [fut EXCEPT ![t] = [state |-> "RUNNING"]]
    /\ UNCHANGED <<pc, req, api, call, notDone, toCancel, got, response, apiCalls,
                   modelCalls, videoCalls, unit, runs>>

WorkerFinishCore(run) ==
    /\ fut["core"].state = "RUNNING"
    /\ fut' = [fut EXCEPT !["core"] =
                  [state |-> "FINISHED",
                   result |-> _fetch_sense_core_metadata(call.basic_definition,
                                                         call.part_of_speech, run)]]
    /\ modelCalls' = modelCalls + 1
    /\ UNCHANGED <<pc, req, api, call, notDone, toCancel, got, response, apiCalls,
                   videoCalls, unit>>
    /\ runs' = [runs EXCEPT !["core"] = run.kind]

WorkerFinishRelated(run) ==
    /\ fut["related"].state = "RUNNING"
    /\ fut' = [fut EXCEPT !["related"] =
                  [state |-> "FINISHED", result |-> _fetch_sense_related_words(run)]]
    /\ modelCalls' = modelCalls + (IF RelatedCallsAgent THEN 1 ELSE 0)
    /\ UNCHANGED <<pc, req, api, call, notDone, toCancel, got, response, apiCalls,
                   videoCalls, unit>>
    /\ runs' = [runs EXCEPT !["related"] = run.kind]

\* concurrent.futures.wait(..., return_when=ALL_COMPLETED) returns: every future is done
WaitAllCompleted ==
    /\ pc = "wait"
    /\ \A t \in Tasks : fut[t].state = "FINISHED"
    /\ notDone' = {}
    /\ toCancel' = {}
    /\ pc' = "cancel"
    /\ UNCHANGED <<req, api, call, fut, got, response, apiCalls, modelCalls,
                   videoCalls, unit, runs>>

\* ... or the timeout of 30 s expires first
WaitTimeout ==
    /\ pc = "wait"
    /\ \E t \in Tasks : fut[t].state # "FINISHED"
    /\ notDone' = {t \in Tasks : fut[t].state # "FINISHED"}
    /\ toCancel' = notDone'
    /\ pc' = "cancel"
    /\ UNCHANGED <<req, api, call, fut, got, response, apiCalls, modelCalls,
                   videoCalls, unit, runs>>

\* Future.cancel(): only a future that has not started can be cancelled
FutureCancel(future) ==
    IF future.state = "PENDING" THEN [state |-> "CANCELLED"] ELSE future

CancelNotDone(t) ==
    /\ pc = "cancel"
    /\ t \in toCancel
    /\ fut' = [fut EXCEPT ![t] = FutureCancel(fut[t])]
    /\ toCancel' = toCancel \ {t}
    /\ UNCHANGED <<pc, req, api, call, notDone, got, response, apiCalls, modelCalls,
                   videoCalls, unit, runs>>

ReadCore ==
    /\ pc = "cancel"
    /\ toCancel = {}
    /\ got' = [got EXCEPT !["core"] = Some(_get_future_result(fut["core"], "core_metadata"))]
    /\ pc' = "read_related"
    /\ UNCHANGED <<req, api, call, fut, notDone, toCancel, response, apiCalls,
                   modelCalls, videoCalls, unit, runs>>

ReadRelated ==
    /\ pc = "read_related"
    /\ got' = [got EXCEPT !["related"] =
                  Some(_get_future_result(fut["related"], "related_words"))]
    /\ pc' = "shutdown"
    /\ UNCHANGED <<req, api, call, fut, notDone, toCancel, response, apiCalls,
                   modelCalls, videoCalls, unit, runs>>

\* the answer of lookup_section for detailed_sense, from the result of the enrichment
DetailedSenseResponse(word, entry_index, sense_index, sense_result) ==
    IF Get(sense_result, "success", FALSE)
    THEN [headword |-> word,
          detailed_sense |-> sense_result.sense_detail,
          entry_index |-> entry_index,
          sense_index |-> sense_index,
          execution_time |-> "elapsed",
          success |-> TRUE]
    ELSE sense_result

\* shutdown(wait=False): the with block left with workers still busy
ShutdownNoWait == TRUE

\* ThreadPoolExecutor.__exit__ is shutdown(wait=True): it returns when every work
\* item has run to its end or was cancelled
ShutdownWait == \A t \in Tasks : fut[t].state \in {"FINISHED", "CANCELLED"}

\* leaving the with block joins the workers; then the fan-in
ShutdownAndReturn ==
    /\ pc = "shutdown"
    /\ ShutdownWait
    /\ Return(DetailedSenseResponse(req.word, Val(req.entry_index), Val(req.sense_index),
                EnhancedSenseResult(call.sense_index, call.api_synonyms, call.api_antonyms,
                                    Val(got["core"]), Val(got["related"]))))
    /\ UNCHANGED <<req, api, call, fut, notDone, toCancel, got, apiCalls, modelCalls,
                   videoCalls, unit, runs>>

-----------------------------------------------------------------------------
(* The model calls of the other sections *)

ExamplesModel(run) ==
    /\ pc = "standalone_model"
    /\ req.section = "examples"
    /\ Return(ExamplesResponse(req.word, Val(req.entry_index), Val(req.sense_index),
                               call.definition, run))
    /\ modelCalls' = modelCalls + (IF ExamplesCallsAgent THEN 1 ELSE 0)
    /\ UNCHANGED <<req, api, call, fut, notDone, toCancel, got, apiCalls, videoCalls, unit, runs>>

UsageNotesModel(run) ==
    /\ pc = "standalone_model"
    /\ req.section = "usage_notes"
    /\ Return(UsageNotesResponse(req.word, Val(req.entry_index), Val(req.sense_index), run))
    /\ modelCalls' = modelCalls + 1
    /\ UNCHANGED <<req, api, call, fut, notDone, toCancel, got, apiCalls, videoCalls, unit, runs>>

SectionModel(run) ==
    /\ pc = "section_model"
    /\ req.section \in AiSections
    /\ Return(SectionResponse(req.word, req.section, call.target_entry_index,
                              SectionFetch(req.section, run)))
    /\ modelCalls' = modelCalls + 1
    /\ call' = call @@ [run |-> run.kind]
    /\ UNCHANGED <<req, api, fut, notDone, toCancel, got, apiCalls, videoCalls, unit, runs>>

BilibiliPhrases(run) ==
    /\ pc = "section_model"
    /\ req.section = "bilibili_videos"
    /\ call' = [call EXCEPT !.target = "videos"]
               @@ [phrases |-> _fetch_common_phrases(req.word, run)]
    /\ modelCalls' = modelCalls + 1
    /\ pc' = "videos"
    /\ UNCHANGED <<req, api, fut, notDone, toCancel, got, response, apiCalls,
                   videoCalls, unit, runs>>

BilibiliVideos(searches) ==
    /\ pc = "videos"
    /\ DOMAIN searches = 1..Len(call.phrases)
    /\ videoCalls' = videoCalls + Len(call.phrases)
    /\ Return(SectionResponse(req.word, req.section, call.target_entry_index,
                              _fetch_bilibili_videos(call.phrases, searches)))
    /\ UNCHANGED <<req, api, call, fut, notDone, toCancel, got, apiCalls, modelCalls, unit, runs>>

-----------------------------------------------------------------------------

Next ==
    \/ \E word \in Words, section \in Sections,
          entry_index \in EntryIndexes, sense_index \in SenseIndexes :
            LookupSection(word, section, entry_index, sense_index)
    \/ \E http \in HttpOutcomes : BasicSection(http)
    \/ \E http \in HttpOutcomes : DetailedSenseSection(http)
    \/ \E http \in HttpOutcomes : StandaloneSection(http)
    \/ \E http \in HttpOutcomes : EntryLevelSection(http)
    \/ SubmitCore
    \/ SubmitRelated
    \/ \E t \in Tasks : WorkerStart(t)
    \/ \E run \in CoreRuns : WorkerFinishCore(run)
    \/ \E run \in RelatedRuns : WorkerFinishRelated(run)
    \/ WaitAllCompleted
    \/ WaitTimeout
    \/ \E t \in Tasks : CancelNotDone(t)
    \/ ReadCore
    \/ ReadRelated
    \/ ShutdownAndReturn
    \/ \E run \in UsageExamplesRuns : ExamplesModel(run)
    \/ \E run \in UsageNotesRuns : UsageNotesModel(run)
    \/ \E run \in SectionRuns : SectionModel(run)
    \/ \E run \in UNION {CommonPhrasesRuns(word) : word \in Words} : BilibiliPhrases(run)
    \/ \E searches \in SeqsUpTo(SectionSearches, 3) : BilibiliVideos(searches)

Spec == Init /\ [][Next]_vars

-----------------------------------------------------------------------------
(* The enrichment applied to drawn ground-truth lists, model lists and futures *)

Chain(stem, n) == [i \in 1..n |-> stem \o Str(i)]

ApiSynonymLists == SeqsUpTo({"a", "b"}, MaxApiLen)
AiSynonymLists == SeqsUpTo({"a", "c", "d"}, MaxAiLen)
ApiAntonymLists == {Chain("ant", k) : k \in {0, 1, MaxApiLen}}
AiAntonymLists == {Chain("ant", k) : k \in {0, MaxAiLen}}
AiPhraseLists == {Chain("phrase", k) : k \in {0, 2, MaxAiLen}}

\* the data a validated SenseRelatedWords dumps to
RelatedData(synonyms, antonyms, phrases) ==
    ModelDump([synonyms |-> synonyms, antonyms |-> antonyms,
               word_specific_phrases |-> phrases, note |-> "ignored"],
              SenseRelatedWordsFields)

\* lines 789-802 on their own
MergeUnit ==
    /\ unit = NoUnit
    /\ \E api_synonyms \in ApiSynonymLists, api_antonyms \in ApiAntonymLists,
          ai_synonyms \in AiSynonymLists, ai_antonyms \in AiAntonymLists,
          ai_phrases \in AiPhraseLists :
            unit' = [fn |-> "merge",
                     api_synonyms |-> api_synonyms,
                     api_antonyms |-> api_antonyms,
                     ai_synonyms |-> ai_synonyms,
                     ai_antonyms |-> ai_antonyms,
                     ai_phrases |-> ai_phrases,
                     merged |-> MergeRelated(api_synonyms, api_antonyms,
                                   RelatedData(ai_synonyms, ai_antonyms, ai_phrases))]
    /\ UNCHANGED <<pc, req, api, call, fut, notDone, toCancel, got, response,
                   apiCalls, modelCalls, videoCalls, runs>>

\* every value the code of the related-words sub-task returns, whatever the agent does
RelatedContentRuns ==
    {[kind |-> "content", raw |-> RelatedData(syn, ant, phr)] :
        syn \in {<<>>, <<"lender", "treasury">>, <<"s1", "s1", "s2", "s3", "s4">>},
        ant \in {<<>>, <<"borrower", "debtor", "spender">>},
        phr \in {<<>>, <<"break the bank">>, Chain("phrase", 4)}}

RelatedReturns ==
    {RelatedAfterPrompt(run) : run \in RelatedRuns \cup RelatedContentRuns}
    \cup {_fetch_sense_related_words(run) : run \in RelatedRuns}

\* future_core as _get_future_result can find it, with what its agent did
CoreFutures(basic_definition, part_of_speech) ==
    {[state |-> "FINISHED", run |-> run,
      result |-> _fetch_sense_core_metadata(basic_definition, part_of_speech, run)] :
        run \in CoreRuns}
    \cup {[state |-> "CANCELLED"], [state |-> "RUNNING"]}

\* future_related as _get_future_result can find it
RelatedFutures ==
    {[state |-> "FINISHED", result |-> r] : r \in RelatedReturns}
    \cup {[state |-> "CANCELLED"], [state |-> "RUNNING"]}

\* _fetch_single_detailed_sense_2d on a body of the API, the two futures as drawn
EnhanceUnit ==
    /\ unit = NoUnit
    /\ \E entries \in ApiBodies, entry_index \in 0..MaxEntryIndex,
          sense_index \in 0..MaxSenseIndex :
         LET api_result == [success |-> TRUE, entries |-> entries,
                            total_entries |-> Len(entries)]
             hit == DetailedSenseResolve(api_result, entry_index, sense_index)
         IN IF ~hit.found
            THEN unit' = [fn |-> "enhance",
                          entries |-> entries,
                          entry_index |-> entry_index,
                          sense_index |-> sense_index,
                          found |-> FALSE,
                          response |-> [error |-> hit.error, success |-> FALSE]]
            ELSE \E future_core \in CoreFutures(hit.definition, hit.part_of_speech),
                    future_related \in RelatedFutures :
                   LET core_result == _get_future_result(future_core, "core_metadata")
                       related_result == _get_future_result(future_related, "related_words")
                       result == EnhancedSenseResult(sense_index, hit.def_synonyms,
                                                     hit.def_antonyms, core_result,
                                                     related_result)
                   IN unit' = [fn |-> "enhance",
                               entries |-> entries,
                               entry_index |-> entry_index,
                               sense_index |-> sense_index,
                               found |-> TRUE,
                               api_synonyms |-> hit.def_synonyms,
                               api_antonyms |-> hit.def_antonyms,
                               future_core |-> future_core,
                               future_related |-> future_related,
                               core_result |-> core_result,
                               related_result |-> related_result,
                               result |-> result,
                               response |-> DetailedSenseResponse("bank", entry_index,
                                                                  sense_index, result)]
    /\ UNCHANGED <<pc, req, api, call, fut, notDone, toCancel, got, response,
                   apiCalls, modelCalls, videoCalls, runs>>

NextEnhance == MergeUnit \/ EnhanceUnit

SpecEnhance == Init /\ [][NextEnhance]_vars

-----------------------------------------------------------------------------
(* The 2D index resolution applied to generated entries *)

CountLists == SeqsUpTo(0..MaxDefs, MaxMeanings)

RECURSIVE SumTo(_, _)
SumTo(counts, m) == IF m = 0 THEN 0 ELSE counts[m] + SumTo(counts, m - 1)

ResolveUnit ==
    /\ unit = NoUnit
    /\ \E counts \in CountLists, sense_index \in -1..MaxSenseIndex :
         LET http == [kind |-> "response", status |-> 200, json |-> TRUE, isList |-> TRUE,
                      body |-> <<EntryOf(counts)>>]
         IN unit' = [fn |-> "resolve",
                     counts |-> counts,
                     entries |-> <<EntryOf(counts)>>,
                     entry_index |-> 0,
                     sense_index |-> sense_index,
                     out |-> DetailedSenseResolve(_fetch_from_api(http), 0, sense_index),
                     examples |-> StandaloneResolve("examples", _fetch_from_api(http), 0,
                                                    sense_index),
                     usage_notes |-> StandaloneResolve("usage_notes", _fetch_from_api(http),
                                                       0, sense_index)]
    /\ UNCHANGED <<pc, req, api, call, fut, notDone, toCancel, got, response,
                   apiCalls, modelCalls, videoCalls, runs>>

\* the three resolutions on the bodies with several entries
CompareUnit ==
    /\ unit = NoUnit
    /\ \E entries \in ApiBodies, entry_index \in 0..MaxEntryIndex,
          sense_index \in 0..MaxSenseIndex :
         LET api_result == [success |-> TRUE, entries |-> entries,
                            total_entries |-> Len(entries)]
         IN unit' = [fn |-> "compare",
                     entries |-> entries,
                     entry_index |-> entry_index,
                     sense_index |-> sense_index,
                     out |-> DetailedSenseResolve(api_result, entry_index, sense_index),
                     examples |-> StandaloneResolve("examples", api_result, entry_index,
                                                    sense_index),
                     usage_notes |-> StandaloneResolve("usage_notes", api_result,
                                                       entry_index, sense_index)]
    /\ UNCHANGED <<pc, req, api, call, fut, notDone, toCancel, got, response,
                   apiCalls, modelCalls, videoCalls, runs>>

NextResolve == ResolveUnit \/ CompareUnit

SpecResolve == Init /\ [][NextResolve]_vars

-----------------------------------------------------------------------------
(* _fetch_basic and _extract_pronunciation_data applied to drawn bodies *)

\* the entries a drawn body is made of
BasicEntryPool ==
    {EntryOf(counts) : counts \in SeqsUpTo({0, 2, 3, 5}, 2)}
    \cup {EntriesBank[1], EntriesRun[1], EntrySynonyms, [phonetics |-> <<>>]}

BasicHttp ==
    {[kind |-> "response", status |-> 200, json |-> TRUE, isList |-> TRUE, body |-> b] :
        b \in SeqsUpTo(BasicEntryPool, MaxBasicEntries)}
    \cup {h \in HttpOutcomes : ~_fetch_from_api(h).success}

BasicUnit ==
    /\ unit = NoUnit
    /\ \E http \in BasicHttp :
         unit' = [fn |-> "basic",
                  http |-> http,
                  out |-> _fetch_basic("bank", _fetch_from_api(http))]
    /\ UNCHANGED <<pc, req, api, call, fut, notDone, toCancel, got, response,
                   apiCalls, modelCalls, videoCalls, runs>>

\* the phonetic entries of the dictionary API: text only, audio only, both, empty audio
PhoneticPool ==
    {[text |-> "a"],
     [audio |-> AudioUs1],
     [audio |-> AudioUk1],
     [audio |-> AudioRunUs],
     [text |-> "/rVn/", audio |-> AudioRunUK],
     [audio |-> AudioRunAu],
     [audio |-> AudioEnUsRun],
     [text |-> "", audio |-> <<>>]}

PronunciationUnit ==
    /\ unit = NoUnit
    /\ \E phonetics \in SeqsUpTo(PhoneticPool, MaxPhonetics) :
         unit' = [fn |-> "pronunciation",
                  phonetics |-> phonetics,
                  out |-> _extract_pronunciation_data([phonetics |-> phonetics])]
    /\ UNCHANGED <<pc, req, api, call, fut, notDone, toCancel, got, response,
                   apiCalls, modelCalls, videoCalls, runs>>

\* every answer of requests.get: a status with an array, another JSON value or an
\* undecodable body; a timeout; another exception
ApiHttp ==
    {[kind |-> "response", status |-> status, json |-> TRUE, isList |-> TRUE, body |-> b] :
        status \in {200, 404, 500}, b \in SeqsUpTo(BasicEntryPool, MaxBasicEntries)}
    \cup {[kind |-> "response", status |-> status, json |-> json, isList |-> FALSE,
           body |-> <<>>] : status \in {200, 404, 500}, json \in BOOLEAN}
    \cup {h \in HttpOutcomes : h.kind # "response"}
    \cup {[kind |-> "raise", text |-> <<"Exceeded 30 redirects.">>]}

ApiUnit ==
    /\ unit = NoUnit
    /\ \E http \in ApiHttp :
         unit' = [fn |-> "api", http |-> http, out |-> _fetch_from_api(http)]
    /\ UNCHANGED <<pc, req, api, call, fut, notDone, toCancel, got, response,
                   apiCalls, modelCalls, videoCalls, runs>>

\* the resolution of detailed_sense on a drawn entry: the lists handed to
\* _fetch_enhanced_sense
SenseListsUnit ==
    /\ unit = NoUnit
    /\ \E entry \in BasicEntryPool, sense_index \in 0..MaxSenseIndex :
         LET api_result == [success |-> TRUE, entries |-> <<entry>>, total_entries |-> 1]
         IN unit' = [fn |-> "sense_lists",
                     entry |-> entry,
                     sense_index |-> sense_index,
                     hit |-> DetailedSenseResolve(api_result, 0, sense_index)]
    /\ UNCHANGED <<pc, req, api, call, fut, notDone, toCancel, got, response,
                   apiCalls, modelCalls, videoCalls, runs>>

NextBasic == BasicUnit \/ PronunciationUnit \/ ApiUnit \/ SenseListsUnit

SpecBasic == Init /\ [][NextBasic]_vars

-----------------------------------------------------------------------------------------------------------------------------------------------------
(* The video pipeline on drawn search results *)

MaxCandidates == 2    \* most videos of a drawn search result

CandidateLists == SeqsUpTo(VideoPool, MaxCandidates)

\* one phrase against every drawn pair of search results
PhraseUnit ==
    /\ unit = NoUnit
    /\ \E found \in Searches(CandidateLists) :
          unit' = [fn |-> "phrase", phrase |-> "bank on", found |-> found,
                   out |-> PhraseVideos("bank on", found)]
    /\ UNCHANGED <<pc, req, api, call, fut, notDone, toCancel, got, response, apiCalls,
                   modelCalls, videoCalls, runs>>

\* the whole pipeline, each phrase with a search result of at most one video
VideosUnit ==
    /\ unit = NoUnit
    /\ \E run \in CommonPhrasesRuns("bank") :
          LET phrases == _fetch_common_phrases("bank", run)
          IN \E searches \in [1..Len(phrases) -> Searches(SeqsUpTo(VideoPool, 1))] :
                unit' = [fn |-> "videos", run |-> run.kind, phrases |-> phrases,
                         searches |-> searches,
                         out |-> _fetch_bilibili_videos(phrases, searches)]
    /\ UNCHANGED <<pc, req, api, call, fut, notDone, toCancel, got, response, apiCalls,
                   modelCalls, videoCalls, runs>>

NextVideos == PhraseUnit \/ VideosUnit

SpecVideos == Init /\ [][NextVideos]_vars

-----
(* Properties *)

ListFields == {"synonyms", "antonyms", "word_specific_phrases"}

\* s holds n entries taken from `from`, then empty strings, three in all
TruncatedOrPadded(s, n, from) ==
    /\ Len(s) = 3
    /\ \A i \in 1..3 : IF i <= n THEN s[i] \in from ELSE s[i] = ""

\* C1: every successful result of _fetch_enhanced_sense, and every successful
\* detailed_sense response, has synonyms, antonyms and word_specific_phrases of
\* length exactly 3, whatever the lengths of the ground-truth lists (0, 1..3, more)
\* and of the model's lists (0, 1..3, more): what is longer is cut, what is shorter
\* is filled with empty strings.
C1_ListsHaveLengthThree ==
    /\ unit.fn = "merge" =>
         /\ TruncatedOrPadded(unit.merged.synonyms,
                              Cardinality(Range(unit.api_synonyms \o unit.ai_synonyms)),
                              Range(unit.api_synonyms \o unit.ai_synonyms))
         /\ TruncatedOrPadded(unit.merged.antonyms,
                              Cardinality(Range(unit.api_antonyms \o unit.ai_antonyms)),
                              Range(unit.api_antonyms \o unit.ai_antonyms))
         /\ TruncatedOrPadded(unit.merged.word_specific_phrases,
                              Len(unit.ai_phrases), Range(unit.ai_phrases))
    /\ (unit.fn = "enhance" /\ unit.found /\ unit.result.success) =>
         /\ \A f \in ListFields : Len(unit.result.sense_detail[f]) = 3
         /\ unit.response.success
         /\ \A f \in ListFields : Len(unit.response.detailed_sense[f]) = 3

\* no ground truth and nothing from the model for synonyms, more than three
\* ground-truth antonyms, more than three phrases from the model
C1_Witness ==
    /\ unit.fn = "merge"
    /\ unit.api_synonyms = <<>>
    /\ unit.ai_synonyms = <<>>
    /\ unit.merged.synonyms = <<"", "", "">>
    /\ Len(unit.api_antonyms) > 3
    /\ Len(unit.ai_phrases) > 3
    /\ Len(unit.merged.word_specific_phrases) = 3

\* the positions of s that hold an entry for the first time
FirstIdx(s) == {i \in 1..Len(s) : \A j \in 1..(i - 1) : s[j] # s[i]}

\* the n-th of them
NthFirst(s, n) == CHOOSE i \in FirstIdx(s) : Cardinality({j \in FirstIdx(s) : j <= i}) = n

RECURSIVE AllDefs(_, _)
AllDefs(meanings, m) ==
    IF m = 0 THEN <<>>
    ELSE AllDefs(meanings, m - 1) \o Get(meanings[m], "definitions", <<>>)

AddressedDef(entries, entry_index, sense_index) ==
    LET meanings == Get(entries[entry_index + 1], "meanings", <<>>)
    IN AllDefs(meanings, Len(meanings))[sense_index + 1]

\* C3: in every successful detailed_sense result the definition field is the
\* definition string of the addressed definition object of the dictionary API,
\* whatever the core-metadata model call returned.
C3_DefinitionIsApis ==
    (unit.fn = "enhance" /\ unit.found /\ unit.response.success) =>
        unit.response.detailed_sense.definition
            = Get(AddressedDef(unit.entries, unit.entry_index, unit.sense_index),
                  "definition", "")

\* a success where the model's JSON carried a definition of its own
C3_Witness ==
    /\ unit.fn = "enhance"
    /\ unit.found
    /\ unit.response.success
    /\ unit.future_core.state = "FINISHED"
    /\ "definition" \in DOMAIN unit.future_core.run.raw
    /\ unit.future_core.run.raw.definition # unit.response.detailed_sense.definition
    /\ unit.response.detailed_sense.definition = "a financial institution"

\* C4 as stated: detailed_sense with entry_index 0 and sense_index 0, the API
\* succeeding with 2 synonyms and 1 antonym for that sense, both agents returning
\* schema-conforming output: the answer is a success with 3 synonyms, the 2 of the
\* API first, and 3 antonyms, the 1 of the API first.
C4_ScenarioSucceeds ==
    (/\ pc = "done"
     /\ req.section = "detailed_sense"
     /\ req.entry_index = Some(0)
     /\ req.sense_index = Some(0)
     /\ Get(api, "success", FALSE)
     /\ call.target = "_fetch_enhanced_sense"
     /\ Len(call.api_synonyms) = 2
     /\ Len(call.api_antonyms) = 1
     /\ notDone = {}
     /\ runs["core"] = "content"
     /\ runs["related"] = "content")
    => /\ Val(response).success
       /\ Len(Val(response).detailed_sense.synonyms) = 3
       /\ Take(Val(response).detailed_sense.synonyms, 2) = call.api_synonyms
       /\ Len(Val(response).detailed_sense.antonyms) = 3
       /\ Take(Val(response).detailed_sense.antonyms, 1) = call.api_antonyms

\* the scenario answered with the failure of the related-words sub-task, whose
\* call of the prompt builder raised
C4_Witness ==
    /\ pc = "done"
    /\ req.section = "detailed_sense"
    /\ req.entry_index = Some(0)
    /\ req.sense_index = Some(0)
    /\ call.target = "_fetch_enhanced_sense"
    /\ Len(call.api_synonyms) = 2
    /\ Len(call.api_antonyms) = 1
    /\ notDone = {}
    /\ runs["core"] = "content"
    /\ runs["related"] = "content"
    /\ Val(response) = [success |-> FALSE,
                        error |-> <<"Parallel execution failed: ", "related: ">>
                                      \o RelatedPromptError]

\* the item of the aggregated error that carries a sub-task's reason
ErrorItem(name, sub_result) == <<name \o ": ">> \o Get(sub_result, "error", <<"None">>)

\* C5: when at least one of the two sub-tasks fails, _fetch_enhanced_sense returns
\* success=false and its error has one item for each failed sub-task, with the
\* sub-task's name and its own reason; both appear when both fail; a sub-task
\* that succeeded is not named.
C5_EachFailureNamed ==
    (/\ unit.fn = "enhance"
     /\ unit.found
     /\ ~(unit.core_result.success /\ unit.related_result.success))
    => /\ ~unit.result.success
       /\ ~unit.core_result.success
            => ContainsSeq(unit.result.error, ErrorItem("core", unit.core_result))
       /\ ~unit.related_result.success
            => ContainsSeq(unit.result.error, ErrorItem("related", unit.related_result))
       /\ unit.core_result.success => ~Mentions(unit.result.error, "core: ")
       /\ unit.related_result.success => ~Mentions(unit.result.error, "related: ")

\* both sub-tasks failed, each for a reason of its own
C5_Witness ==
    /\ unit.fn = "enhance"
    /\ unit.found
    /\ ~unit.core_result.success
    /\ ~unit.related_result.success
    /\ unit.core_result.error = <<"Request timed out.">>
    /\ unit.related_result.error = <<"Failed to parse related words">>
    /\ unit.result.error = <<"Parallel execution failed: ", "core: ", "Request timed out.",
                             ", ", "related: ", "Failed to parse related words">>

\* C6 as stated: a sub-task still pending when the wait of _fetch_enhanced_sense
\* expires is counted as failed, even if it completes after the deadline and
\* before or while its future is read: the answer is a failure that names it.
C6_PendingAtDeadlineFails ==
    (pc = "done" /\ call.target = "_fetch_enhanced_sense") =>
        \A t \in notDone :
            /\ ~Val(got[t]).success
            /\ ~Val(response).success
            /\ Mentions(Val(response).error, t \o ": ")

\* the core sub-task, pending at the deadline, read as a success afterwards and
\* left out of the failures the answer names
C6_Witness ==
    /\ pc = "done"
    /\ call.target = "_fetch_enhanced_sense"
    /\ "core" \in notDone
    /\ Val(got["core"]).success
    /\ ~Val(response).success
    /\ ~Mentions(Val(response).error, "core: ")

TaskName(t) == IF t = "core" THEN "core_metadata" ELSE "related_words"

\* every reason a sub-task itself returns: parse failures, transport exceptions,
\* the exception of the prompt call
SubTaskReasons ==
    {r.error : r \in {x \in {_fetch_sense_core_metadata("", "", run) : run \in CoreRuns}
                              \cup RelatedReturns : ~x.success}}

\* C7: whenever _get_future_result reads a future whose sub-task has not completed,
\* cancelled or still running, it returns success=false with the reason
\* 'Task <name> was cancelled' or 'Task <name> not ready', which is none of the
\* reasons a sub-task returns for a parse failure or a transport exception.
C7_UnfinishedReadDistinct ==
    [][\A t \in Tasks :
          (got[t] = None /\ got'[t] # None /\ fut[t].state # "FINISHED") =>
              LET r == Val(got'[t])
              IN /\ ~r.success
                 /\ r.error = IF fut[t].state = "CANCELLED"
                              THEN <<"Task ", TaskName(t), " was cancelled">>
                              ELSE <<"Task ", TaskName(t), " not ready">>
                 /\ r.error \notin SubTaskReasons]_vars

\* one future read while running, the other read cancelled
C7_Witness ==
    \E t, u \in Tasks :
        /\ got[t] = Some([success |-> FALSE,
                          error |-> <<"Task ", TaskName(t), " not ready">>])
        /\ got[u] = Some([success |-> FALSE,
                          error |-> <<"Task ", TaskName(u), " was cancelled">>])

C10_TwoDimensionalResolution ==
    unit.fn = "resolve" =>
        LET counts == unit.counts
            s == unit.sense_index
            out == unit.out
            total == SumTo(counts, Len(counts))
        IN /\ (0 <= s /\ s < total) =>
                /\ out.found
                /\ SumTo(counts, out.meaning) <= s
                /\ s < SumTo(counts, out.meaning + 1)
                /\ out.offset = s - SumTo(counts, out.meaning)
                /\ out.definition = "def " \o Str(out.meaning) \o "." \o Str(out.offset)
           /\ s >= total =>
                /\ ~out.found
                /\ Mentions(out.error, "0-" \o Str(total - 1))
           /\ counts = <<3, 5, 2>> =>
                /\ s \in 0..2 => out.found /\ out.meaning = 0 /\ out.offset = s
                /\ s \in 3..7 => out.found /\ out.meaning = 1 /\ out.offset = s - 3
                /\ s \in 8..9 => out.found /\ out.meaning = 2 /\ out.offset = s - 8
                /\ s = 10 => ~out.found /\ Mentions(out.error, "0-9")

\* sense 8 of the counts 3,5,2 is the first definition of the third meaning
C10_Witness ==
    /\ unit.fn = "resolve"
    /\ unit.counts = <<3, 5, 2>>
    /\ unit.sense_index = 8
    /\ unit.out.found
    /\ unit.out.meaning = 2
    /\ unit.out.offset = 0

\* whether (entry_index, sense_index) addresses no definition of the API's entries
IndexOutOfRange(entries, entry_index, sense_index) ==
    \/ entry_index < 0
    \/ entry_index >= Len(entries)
    \/ sense_index < 0
    \/ sense_index >= Len(AllDefs(Get(entries[entry_index + 1], "meanings", <<>>),
                                  Len(Get(entries[entry_index + 1], "meanings", <<>>))))

\* the valid range the error of an out-of-range request has to name
ValidRange(entries, entry_index) ==
    IF entry_index < 0 \/ entry_index >= Len(entries)
    THEN "0-" \o Str(Len(entries) - 1)
    ELSE "0-" \o Str(Len(AllDefs(Get(entries[entry_index + 1], "meanings", <<>>),
                                 Len(Get(entries[entry_index + 1], "meanings", <<>>)))) - 1)

\* C11 as stated: for detailed_sense, examples and usage_notes, when the dictionary
\* API succeeds and entry_index or sense_index is outside the valid range (negative,
\* or at or past the number of entries or of senses of the entry), the answer is an
\* error that names the valid range, never data of another entry or sense.
C11_OutOfRangeRejected ==
    (/\ pc = "done"
     /\ req.section \in {"detailed_sense", "examples", "usage_notes"}
     /\ req.entry_index # None
     /\ req.sense_index # None
     /\ Get(api, "success", FALSE)
     /\ IndexOutOfRange(api.entries, Val(req.entry_index), Val(req.sense_index)))
    => /\ ~Val(response).success
       /\ Mentions(Val(response).error,
                   ValidRange(api.entries, Val(req.entry_index)))

\* usage_notes asked for entry -1 of a word with two entries, answered with the
\* usage notes of a sense of the last entry
C11_Witness ==
    /\ pc = "done"
    /\ req.section = "usage_notes"
    /\ req.entry_index = Some(-1)
    /\ req.sense_index = Some(4)
    /\ Get(api, "success", FALSE)
    /\ Len(api.entries) = 2
    /\ Val(response).success
    /\ call.target = "usage_notes"
    /\ call.definition = api.entries[2].meanings[1].definitions[5]
    /\ Val(response).entry_index = -1
    /\ "usage_notes" \in DOMAIN Val(response)

\* the sum of f[1] .. f[n]
RECURSIVE SumSeq(_, _)
SumSeq(f, n) == IF n = 0 THEN 0 ELSE f[n] + SumSeq(f, n - 1)

\* C12: in a successful basic response built from any list of API entries,
\* total_entries is the number of entries; there is one summary per entry, in input
\* order, with entry_index its position; each entry's total_senses is the sum of
\* definition_count over its meanings, each definition_count being the number of
\* senses listed for the meaning; the top-level total_senses is the sum of the
\* entries' total_senses (entries with 3 and 5 senses give 2 and 8).
C12_BasicTotals ==
    (unit.fn = "basic" /\ unit.out.success) =>
        LET body == unit.http.body
            out == unit.out
        IN /\ out.total_entries = Len(body)
           /\ Len(out.entries) = Len(body)
           /\ \A e \in 1..Len(body) :
                LET info == out.entries[e]
                    meanings == Get(body[e], "meanings", <<>>)
                    summary == info.meanings_summary
                IN /\ info.entry_index = e - 1
                   /\ Len(summary) = Len(meanings)
                   /\ \A m \in 1..Len(summary) :
                        /\ summary[m].definition_count = Len(summary[m].senses)
                        /\ Len(summary[m].senses) = Len(Get(meanings[m], "definitions", <<>>))
                        /\ \A k \in 1..Len(summary[m].senses) :
                             summary[m].senses[k].definition
                                 = Get(meanings[m].definitions[k], "definition", "")
                   /\ info.total_senses
                        = SumSeq([m \in 1..Len(summary) |-> summary[m].definition_count],
                                 Len(summary))
           /\ out.total_senses
                = SumSeq([e \in 1..Len(body) |-> out.entries[e].total_senses], Len(body))

\* two entries with 3 and 5 senses
C12_Witness ==
    /\ unit.fn = "basic"
    /\ unit.out.success
    /\ unit.out.total_entries = 2
    /\ unit.out.entries[1].total_senses = 3
    /\ unit.out.entries[2].total_senses = 5
    /\ unit.out.total_senses = 8

SenseLevelSections == {"detailed_sense", "examples", "usage_notes"}

\* C13: for basic, detailed_sense, examples and usage_notes, whenever the fetch
\* from the dictionary API fails (non-200, empty result, timeout, transport error)
\* the answer is success=false with an error containing 'Dictionary API failed',
\* and no model call is made as a fallback.
C13_ApiFailureReported ==
    (/\ req.section \in SenseLevelSections \cup {"basic"}
     /\ apiCalls > 0
     /\ ~Get(api, "success", FALSE))
    => /\ pc = "done"
       /\ ~Val(response).success
       /\ Val(response).error[1] = "Dictionary API failed: "
       /\ SubSeq(Val(response).error, 2, Len(Val(response).error)) = api.error
       /\ modelCalls = 0

\* examples asked, the API timing out
C13_Witness ==
    /\ pc = "done"
    /\ req.section = "examples"
    /\ apiCalls = 1
    /\ ~Get(api, "success", FALSE)
    /\ Val(response) = [success |-> FALSE,
                        error |-> <<"Dictionary API failed: ", "API request timeout">>]
    /\ modelCalls = 0

\* the definition objects of all entries of the API's answer
EveryDef(entries) ==
    UNION {Range(AllDefs(Get(entries[e], "meanings", <<>>),
                         Len(Get(entries[e], "meanings", <<>>)))) : e \in 1..Len(entries)}

\* C14: in every execution of lookup_section a model call is issued only if the
\* section is not basic and, for detailed_sense, examples and usage_notes, only
\* after the fetch from the dictionary API has succeeded and the pair
\* (entry_index, sense_index) has been resolved to an existing definition; a basic
\* request issues no model call, whether the API succeeds or fails.
C14_ModelCallOnlyAfterResolution ==
    /\ req.section = "basic" => modelCalls = 0
    /\ (modelCalls > 0 /\ req.section \in SenseLevelSections) =>
         /\ apiCalls = 1
         /\ Get(api, "success", FALSE)
         /\ IF req.section = "detailed_sense"
            THEN /\ call.target = "_fetch_enhanced_sense"
                 /\ \E d \in EveryDef(api.entries) :
                       Get(d, "definition", "") = call.basic_definition
            ELSE /\ call.target = req.section
                 /\ call.definition \in EveryDef(api.entries)

\* a usage_notes request answered after its one model call
C14_Witness ==
    /\ pc = "done"
    /\ req.section = "usage_notes"
    /\ modelCalls = 1
    /\ apiCalls = 1
    /\ Get(api, "success", FALSE)
    /\ call.definition \in EveryDef(api.entries)
    /\ Val(response).success

EntryLevelNames ==
    {"etymology", "word_family", "usage_context", "cultural_notes", "frequency",
     "bilibili_videos"}

\* C15: for the entry-level sections, an omitted entry_index is treated as 0 and
\* the successful response reports entry_index 0; a negative entry_index is
\* rejected before any call to the dictionary API or to a model; and when the API
\* succeeds an entry_index at or past the number of entries is rejected with an
\* error naming the range 0-(n-1), without any model call.
C15_EntryIndexRules ==
    (req.section \in EntryLevelNames /\ pc # "idle") =>
        /\ req.entry_index = None =>
             /\ pc \in {"section_model", "videos"} =>
                  /\ call.target_entry_index = 0
                  /\ Get(api, "success", FALSE) =>
                        call.context_entry = Some(api.entries[1])
             /\ (pc = "done" /\ Val(response).success) => Val(response).entry_index = 0
        /\ (req.entry_index # None /\ Val(req.entry_index) < 0) =>
             /\ pc = "done"
             /\ ~Val(response).success
             /\ apiCalls = 0
             /\ modelCalls = 0
             /\ videoCalls = 0
        /\ (/\ req.entry_index # None
            /\ Get(api, "success", FALSE)
            /\ Val(req.entry_index) >= Len(api.entries)) =>
             /\ pc = "done"
             /\ ~Val(response).success
             /\ Mentions(Val(response).error, "0-" \o Str(Len(api.entries) - 1))
             /\ modelCalls = 0
             /\ videoCalls = 0

\* word_family asked for entry 2 of a word with two entries
C15_Witness ==
    /\ pc = "done"
    /\ req.section = "word_family"
    /\ req.entry_index = Some(2)
    /\ Get(api, "success", FALSE)
    /\ Len(api.entries) = 2
    /\ Val(response) = [error |-> <<"entry_index ", "2", " out of range. Word has ", "2",
                                    " entries (", "0-1", ")">>,
                        success |-> FALSE]
    /\ modelCalls = 0

\* C16 as stated: when an entry-level section falls back to the AI-only path
\* because the dictionary API failed, a request carrying an entry_index other than
\* 0 is not answered with a success.
C16_FallbackOnlyEntryZero ==
    (/\ pc = "done"
     /\ req.section \in EntryLevelNames
     /\ apiCalls = 1
     /\ ~Get(api, "success", FALSE)
     /\ req.entry_index # None
     /\ Val(req.entry_index) # 0)
    => ~Val(response).success

\* etymology asked for entry 2, the API failing, answered as entry 0
C16_Witness ==
    /\ pc = "done"
    /\ req.section = "etymology"
    /\ req.entry_index = Some(2)
    /\ apiCalls = 1
    /\ ~Get(api, "success", FALSE)
    /\ Val(response).success
    /\ Val(response).entry_index = 0
    /\ "etymology" \in DOMAIN Val(response)

\* C17: _fetch_from_api never raises: it returns success=true with the raw entries
\* unchanged, and total_entries their count, exactly when the HTTP status is 200
\* and the body is a non-empty JSON array; in every other case (non-200, 200 with
\* an empty array or a non-array body, undecodable body, timeout, transport error)
\* it returns success=false with a non-empty error string.
C17_FetchFromApiTotal ==
    unit.fn = "api" =>
        LET http == unit.http
            out == unit.out
            good == /\ http.kind = "response"
                    /\ http.status = 200
                    /\ http.json
                    /\ http.isList
                    /\ http.body # <<>>
        IN /\ out.success \in BOOLEAN
           /\ out.success <=> good
           /\ good => /\ out.entries = http.body
                      /\ out.total_entries = Len(http.body)
           /\ ~good => /\ out.error # <<>>
                       /\ out.error[1] # ""

\* status 200 with an empty array
C17_Witness ==
    /\ unit.fn = "api"
    /\ unit.http.kind = "response"
    /\ unit.http.status = 200
    /\ unit.http.isList
    /\ unit.http.body = <<>>
    /\ unit.out = [success |-> FALSE, error |-> <<"API returned status ", "200">>]

\* the region code the URL carries: "uk" or "us" somewhere in its lower-cased text
CarriesRegion(audio, region) ==
    \E i \in 1..(Len(audio) - 1) :
        /\ LowerChar(audio[i]) = region[1]
        /\ LowerChar(audio[i + 1]) = region[2]

\* the audio of the first phonetic entry whose URL passes the test
FirstCarrying(phonetics, Test(_)) ==
    LET hits == {i \in 1..Len(phonetics) :
                    /\ Get(phonetics[i], "audio", <<>>) # <<>>
                    /\ Test(phonetics[i].audio)}
    IN IF hits = {} THEN <<>>
       ELSE phonetics[CHOOSE i \in hits : \A j \in hits : i <= j].audio

\* C18 as stated: _extract_pronunciation_data returns the first audio URL carrying
\* the UK marker if any phonetic entry has one, otherwise the first carrying the US
\* marker, otherwise the first non-empty audio URL, wherever those entries stand
\* in the list; for [{text:"a"}, {audio:"us-1.mp3"}, {audio:"uk-1.mp3"}] it
\* returns "uk-1.mp3".
C18_UkThenUsThenAny ==
    unit.fn = "pronunciation" =>
        LET IsUk(audio) == CarriesRegion(audio, <<"u", "k">>)
            IsUs(audio) == CarriesRegion(audio, <<"u", "s">>)
            IsAny(audio) == TRUE
            uk == FirstCarrying(unit.phonetics, IsUk)
            us == FirstCarrying(unit.phonetics, IsUs)
            any == FirstCarrying(unit.phonetics, IsAny)
        IN /\ unit.out.pronunciation
                = (IF uk # <<>> THEN uk ELSE IF us # <<>> THEN us ELSE any)
           /\ unit.phonetics = <<[text |-> "a"], [audio |-> AudioUs1], [audio |-> AudioUk1]>>
                => unit.out.pronunciation = AudioUk1

\* the phonetics of the example, answered with the US audio
C18_Witness ==
    /\ unit.fn = "pronunciation"
    /\ unit.phonetics = <<[text |-> "a"], [audio |-> AudioUs1], [audio |-> AudioUk1]>>
    /\ unit.out.pronunciation = AudioUs1

\* C19: whatever the word, the section and the indices, and whatever the dictionary
\* API, a model call or the video platform does (exceptions included),
\* lookup_section ends with a returned value, never with an exception; the value
\* has a boolean success, and with success false an error text.
C19_NoExceptionEscapes ==
    pc = "done" =>
        /\ response # None
        /\ LET result == Val(response)
           IN /\ "raised" \notin DOMAIN result
              /\ "success" \in DOMAIN result
              /\ result.success \in BOOLEAN
              /\ ~result.success =>
                    /\ "error" \in DOMAIN result
                    /\ result.error \in Seq(STRING)

\* basic asked while the API answers with an array of strings: the AttributeError of
\* _fetch_basic comes back as a failure
C19_Witness ==
    /\ pc = "done"
    /\ req.section = "basic"
    /\ Get(api, "success", FALSE)
    /\ ~IsObject(api.entries[1])
    /\ Val(response) = [headword |-> req.word, error |-> AttributeErrorText, success |-> FALSE]

\* C20 as stated: every successful response of lookup_section carries headword and
\* execution_time, and for every section other than detailed_sense, examples and
\* usage_notes it carries the section's data under a key named as the section.
C20_SectionKeyPresent ==
    (pc = "done" /\ response # None /\ Get(Val(response), "success", FALSE)) =>
        /\ "headword" \in DOMAIN Val(response)
        /\ "execution_time" \in DOMAIN Val(response)
        /\ req.section \notin SenseLevelSections => req.section \in DOMAIN Val(response)

\* basic answered with success: headword and execution_time are there, a key "basic"
\* is not
C20_Witness ==
    /\ pc = "done"
    /\ req.section = "basic"
    /\ Get(api, "success", FALSE)
    /\ Get(Val(response), "success", FALSE)
    /\ {"headword", "execution_time"} \subseteq DOMAIN Val(response)
    /\ "basic" \notin DOMAIN Val(response)
    /\ Val(response).total_entries = Len(api.entries)

\* C21 as stated: when the etymology agent fails (output that does not validate, or
\* an exception), the response of section etymology still has success true, with
\* etymology defaulted to {etymology: "", root_analysis: ""}.
C21_EtymologyDefaulted ==
    (/\ pc = "done"
     /\ req.section = "etymology"
     /\ call.target = "etymology"
     /\ Get(call, "run", "none") \in {"unparsed", "raise"}) =>
        /\ Get(Val(response), "success", FALSE)
        /\ Get(Val(response), "etymology", <<>>) = [etymology |-> "", root_analysis |-> ""]

\* the etymology agent returned output that does not validate, and the section failed
C21_Witness ==
    /\ pc = "done"
    /\ req.section = "etymology"
    /\ call.target = "etymology"
    /\ Get(call, "run", "none") = "unparsed"
    /\ Val(response) = [success |-> FALSE,
                        error |-> <<"Failed to parse ", "etymology", " information">>]

\* what a call with phrase i alone and its own search results returns
AlonePhrase(phrases, searches, i) ==
    _fetch_bilibili_videos(<<phrases[i]>>, <<searches[i]>>).data

RECURSIVE ConcatAlone(_, _, _)
ConcatAlone(phrases, searches, i) ==
    IF i > Len(phrases) THEN <<>>
    ELSE AlonePhrase(phrases, searches, i) \o ConcatAlone(phrases, searches, i + 1)

\* C22: whatever goes wrong for one phrase (the search raises, finds nothing, no
\* candidate passes the filters, the record cannot be built), _fetch_bilibili_videos
\* returns success with, for every phrase and in phrase order, exactly the video
\* that phrase yields on its own: at most one per phrase, tagged with the phrase,
\* none at all when no phrase yields one; without generated phrases the only
\* phrase is the word itself.
C22_PhrasesIndependent ==
    unit.fn = "videos" =>
        /\ unit.out.success
        /\ unit.out.data = ConcatAlone(unit.phrases, unit.searches, 1)
        /\ Len(unit.out.data) <= Len(unit.phrases)
        /\ \A i \in 1..Len(unit.phrases) :
              LET alone == AlonePhrase(unit.phrases, unit.searches, i)
                  found == unit.searches[i]
              IN /\ Len(alone) <= 1
                 /\ alone # <<>> => alone[1].matched_phrase = unit.phrases[i]
                 /\ found.kind = "raise" => alone = <<>>
                 /\ (found.kind = "result" /\ found.knowledge = <<>> /\ found.general = <<>>)
                        => alone = <<>>
        /\ unit.run # "content" => unit.phrases = <<"bank">>

\* three phrases: the search of the first raises, the record of the second cannot be
\* built, the third yields its video
C22_Witness ==
    /\ unit.fn = "videos"
    /\ Len(unit.phrases) = 3
    /\ unit.searches[1].kind = "raise"
    /\ unit.searches[2].kind = "result" /\ unit.searches[2].knowledge = <<VBroken>>
    /\ unit.searches[3].kind = "result" /\ unit.searches[3].knowledge = <<VSub>>
    /\ Len(unit.out.data) = 1
    /\ unit.out.data[1].bvid = "BV1sub"
    /\ unit.out.data[1].matched_phrase = unit.phrases[3]

\* every candidate up to the cap probed until one has a subtitle match, the top one
\* taken otherwise
RECURSIVE ProbeUntilMatch(_, _)
ProbeUntilMatch(items, i) ==
    IF i > Len(items)
    THEN IF items = <<>> THEN [best_video |-> None]
         ELSE [best_video |-> Some(items[1].video), best_subtitle_occurrences |-> <<>>]
    ELSE LET subtitle_occurrences == _get_bilibili_subtitles(items[i].video)
         IN IF subtitle_occurrences # <<>>
            THEN [best_video |-> Some(items[i].video),
                  best_subtitle_occurrences |-> subtitle_occurrences]
            ELSE ProbeUntilMatch(items, i + 1)

\* the candidates of the drawn searches that pass the filters, best score first
SortedCandidates(found) ==
    LET used_knowledge_zone == found.knowledge # <<>>
        videos == IF used_knowledge_zone THEN found.knowledge ELSE found.general
        filtered == FilteredVideos(videos, 1, used_knowledge_zone)
    IN SortByScore(filtered, Len(filtered))

\* C23 as stated: the candidates that pass the filters are probed for subtitles in
\* descending score order, up to 50 of them; the video selected for the phrase is
\* the first probed one with a subtitle line matching the phrase, and start_time is
\* the earliest matching timestamp; the top-scoring candidate with start_time 0 is
\* selected only if no probed candidate has a match.
C23_FirstSubtitleMatchSelected ==
    (unit.fn = "phrase" /\ unit.found.kind = "result" /\ unit.out # <<>>) =>
        LET probed == Take(SortedCandidates(unit.found), MAX_VIDEOS_TO_CHECK_FOR_SUBTITLES)
            best == ProbeUntilMatch(probed, 1)
        IN /\ unit.out[1].bvid = Val(best.best_video).bvid
           /\ unit.out[1].start_time
                = (IF best.best_subtitle_occurrences = <<>> THEN 0
                   ELSE MinStart(best.best_subtitle_occurrences))

\* the top-scoring candidate has no subtitle track, the second has matching lines:
\* the first is selected, with start_time 0
C23_Witness ==
    /\ unit.fn = "phrase"
    /\ unit.found.kind = "result"
    /\ unit.found.knowledge = <<VSub, VTop>>
    /\ _calculate_quality_score(VTop) > _calculate_quality_score(VSub)
    /\ _get_bilibili_subtitles(VTop) = <<>>
    /\ _get_bilibili_subtitles(VSub) # <<>>
    /\ Len(unit.out) = 1
    /\ unit.out[1].bvid = VTop.bvid
    /\ unit.out[1].start_time = 0

\* C24 as stated: every video record returned has a duration in seconds within
\* [45, 1800], whether the search result gave the duration as MM:SS or as HH:MM:SS,
\* and at least 100 views and at least 10 favorites.
C24_RecordWithinThresholds ==
    unit.fn = "phrase" =>
        \A i \in 1..Len(unit.out) :
            /\ 45 <= unit.out[i].duration /\ unit.out[i].duration <= 1800
            /\ unit.out[i].view >= 100
            /\ unit.out[i].favorite >= 10

\* a video of ten minutes given as 0:10:00 passes the filter and is returned with
\* duration 0
C24_Witness ==
    /\ unit.fn = "phrase"
    /\ unit.found.kind = "result"
    /\ unit.found.knowledge = <<VHour>>
    /\ _parse_duration(VHour.duration) = 600
    /\ Len(unit.out) = 1
    /\ unit.out[1].bvid = VHour.bvid
    /\ unit.out[1].duration = 0
    /\ unit.out[1].view >= 100 /\ unit.out[1].favorite >= 10

\* the fields test_parallel_detailed_sense requires of a detailed sense
required_fields ==
    {"definition", "part_of_speech", "usage_register", "domain", "tone", "usage_notes",
     "examples", "collocations", "word_specific_phrases", "synonyms", "antonyms"}

C26_ReturnsWithoutLateTask ==
    (/\ pc = "shutdown"
     /\ call.target = "_fetch_enhanced_sense"
     /\ \E t \in notDone : fut[t].state = "RUNNING") =>
        ENABLED ShutdownAndReturn

\* the deadline has passed, core was read as not ready and is still running: the
\* with block cannot be left
C26_Witness ==
    /\ pc = "shutdown"
    /\ "core" \in notDone
    /\ fut["core"].state = "RUNNING"
    /\ got["core"] = Some([success |-> FALSE, error |-> TaskNotReady("core_metadata")])
    /\ got["related"] # None
    /\ ~ENABLED ShutdownAndReturn

\* C27: when _fetch_enhanced_sense returns, whichever way, its pool has been shut
\* down and neither worker is running: both work items are finished or cancelled,
\* and no worker can start or finish one afterwards.
C27_NoWorkerOutlivesCall ==
    (pc = "done" /\ call.target = "_fetch_enhanced_sense") =>
        /\ \A t \in Tasks : fut[t].state \in {"FINISHED", "CANCELLED"}
        /\ \A t \in Tasks : ~ENABLED WorkerStart(t)
        /\ \A run \in CoreRuns : ~ENABLED WorkerFinishCore(run)
        /\ \A run \in RelatedRuns : ~ENABLED WorkerFinishRelated(run)

\* the timeout path: core was still running at the deadline and read as not ready;
\* at the return it has finished
C27_Witness ==
    /\ pc = "done"
    /\ call.target = "_fetch_enhanced_sense"
    /\ "core" \in notDone
    /\ got["core"] = Some([success |-> FALSE, error |-> TaskNotReady("core_metadata")])
    /\ fut["core"].state = "FINISHED"
    /\ fut["related"].state \in {"FINISHED", "CANCELLED"}

\* C28: with both sub-tasks completed before the deadline, the answer of
\* _fetch_enhanced_sense is determined by the inputs and the two outcomes alone,
\* whatever the order in which the workers started and finished: a failure names
\* the failed sub-tasks with core before related, a success is the merge of the
\* two results.
C28_ResultIndependentOfOrder ==
    (pc = "done" /\ call.target = "_fetch_enhanced_sense" /\ notDone = {}) =>
        LET core == fut["core"].result
            related == fut["related"].result
            failed == (IF ~core.success THEN <<ErrorItem("core", core)>> ELSE <<>>)
                      \o (IF ~related.success THEN <<ErrorItem("related", related)>>
                          ELSE <<>>)
        IN /\ got["core"] = Some(core)
           /\ got["related"] = Some(related)
           /\ Val(response)
                = IF core.success /\ related.success
                  THEN DetailedSenseResponse(req.word, Val(req.entry_index),
                           Val(req.sense_index),
                           [success |-> TRUE,
                            sense_index |-> call.sense_index,
                            sense_detail |->
                                core.data @@ MergeRelated(call.api_synonyms,
                                                          call.api_antonyms, related.data)])
                  ELSE [success |-> FALSE,
                        error |-> <<"Parallel execution failed: ">> \o Join(failed, ", ")]

\* both sub-tasks finished in time and failed: core is named first
C28_Witness ==
    /\ pc = "done"
    /\ call.target = "_fetch_enhanced_sense"
    /\ notDone = {}
    /\ fut["core"].state = "FINISHED" /\ fut["related"].state = "FINISHED"
    /\ fut["core"].result = [success |-> FALSE, error |-> <<"Failed to parse core metadata">>]
    /\ ~fut["related"].result.success
    /\ Val(response).error
         = <<"Parallel execution failed: ", "core: ", "Failed to parse core metadata", ", ">>
           \o ErrorItem("related", fut["related"].result)

\* the list a definition carries itself, or its meaning's when it has none
OwnOrMeanings(def_obj, meaning, key) ==
    IF Get(def_obj, key, <<>>) # <<>> THEN Get(def_obj, key, <<>>)
    ELSE Get(meaning, key, <<>>)

\* C29 as stated: in the basic section and in the resolution of detailed_sense the
\* synonyms (antonyms) attributed to a definition are the definition's own list
\* when that is non-empty, the meaning's list only when the definition has none.
C29_DefinitionListOverrides ==
    /\ (unit.fn = "basic" /\ unit.out.success) =>
          \A e \in 1..Len(unit.http.body) :
             LET meanings == Get(unit.http.body[e], "meanings", <<>>)
             IN \A m \in 1..Len(meanings) :
                   \A k \in 1..Len(Get(meanings[m], "definitions", <<>>)) :
                      \A key \in {"synonyms", "antonyms"} :
                         unit.out.entries[e].meanings_summary[m].senses[k][key]
                            = OwnOrMeanings(meanings[m].definitions[k], meanings[m], key)
    /\ (unit.fn = "sense_lists" /\ unit.hit.found) =>
          LET meaning == unit.entry.meanings[unit.hit.meaning + 1]
              def_obj == meaning.definitions[unit.hit.offset + 1]
          IN /\ unit.hit.def_synonyms = OwnOrMeanings(def_obj, meaning, "synonyms")
             /\ unit.hit.def_antonyms = OwnOrMeanings(def_obj, meaning, "antonyms")

\* C29, amended: as above, except that the basic section shows at most the first
\* three entries of the list it attributes.
C29_OverridesBasicFirstThree ==
    /\ (unit.fn = "basic" /\ unit.out.success) =>
          \A e \in 1..Len(unit.http.body) :
             LET meanings == Get(unit.http.body[e], "meanings", <<>>)
             IN \A m \in 1..Len(meanings) :
                   \A k \in 1..Len(Get(meanings[m], "definitions", <<>>)) :
                      \A key \in {"synonyms", "antonyms"} :
                         unit.out.entries[e].meanings_summary[m].senses[k][key]
                            = Take(OwnOrMeanings(meanings[m].definitions[k], meanings[m],
                                                 key), 3)
    /\ (unit.fn = "sense_lists" /\ unit.hit.found) =>
          LET meaning == unit.entry.meanings[unit.hit.meaning + 1]
              def_obj == meaning.definitions[unit.hit.offset + 1]
          IN /\ unit.hit.def_synonyms = OwnOrMeanings(def_obj, meaning, "synonyms")
             /\ unit.hit.def_antonyms = OwnOrMeanings(def_obj, meaning, "antonyms")

\* basic on an entry whose first definition has four synonyms of its own under a
\* meaning with four others: the first three of its own are shown; its second
\* definition, with none, shows the meaning's
C29_Witness ==
    /\ unit.fn = "basic"
    /\ unit.out.success
    /\ unit.http.body = <<EntrySynonyms>>
    /\ unit.out.entries[1].meanings_summary[1].senses[1].synonyms = <<"a", "b", "c">>
    /\ unit.out.entries[1].meanings_summary[1].senses[1].antonyms = <<"x">>
    /\ unit.out.entries[1].meanings_summary[1].senses[2].synonyms = <<"m1", "m2", "m3">>

\* C30: for every list of entries and every pair with 0 <= entry_index < number
\* of entries and 0 <= sense_index < number of senses of that entry, examples and
\* usage_notes resolve the pair to the definition object detailed_sense resolves it
\* to (same meaning, same place in it), meanings without definitions included.
C30_SameDefinitionResolved ==
    (/\ unit.fn \in {"resolve", "compare"}
     /\ 0 <= unit.entry_index /\ unit.entry_index < Len(unit.entries)
     /\ 0 <= unit.sense_index
     /\ LET meanings == Get(unit.entries[unit.entry_index + 1], "meanings", <<>>)
        IN unit.sense_index < Len(AllDefs(meanings, Len(meanings)))) =>
        /\ unit.out.found
        /\ \A hit \in {unit.examples, unit.usage_notes} :
              /\ hit.kind = "found"
              /\ hit.meaning = unit.out.meaning
              /\ hit.definition_index = unit.out.offset
              /\ hit.definition
                   = unit.entries[unit.entry_index + 1].meanings[unit.out.meaning + 1]
                         .definitions[unit.out.offset + 1]
              /\ Get(hit.definition, "definition", "") = unit.out.definition

\* a sense behind a meaning without definitions: all three find the second
\* definition of the third meaning
C30_Witness ==
    /\ unit.fn = "resolve"
    /\ unit.counts = <<2, 0, 3>>
    /\ unit.sense_index = 3
    /\ unit.out.found
    /\ unit.out.meaning = 2 /\ unit.out.offset = 1
    /\ unit.examples.kind = "found"
    /\ unit.examples.meaning = 2 /\ unit.examples.definition_index = 1
    /\ unit.usage_notes = unit.examples

=============================================================================
